---- MODULE Spec2Model ----
(***************************************************************************)
(* State-machine model of the conversation orchestrator of claude-tutors:  *)
(* LiveAIModule (src/server/live-ai-module.js) together with the parts of  *)
(* ElevenLabsTTS and ClaudeService (src/unnamed/part_004) it drives.       *)
(*                                                                         *)
(* Node.js runs every event handler and every chain of promise             *)
(* continuations (microtasks) to completion before the next I/O or timer   *)
(* event is delivered.  One action of the model is therefore one event     *)
(* (a socket message, a websocket event, a timer tick, the completion of a *)
(* provider call) together with all the synchronous code and all the       *)
(* continuations it triggers, up to the next point where every async       *)
(* function involved awaits real I/O.                                      *)
(***************************************************************************)
EXTENDS Integers, Sequences, FiniteSets, TLC

\* ------------------------------------------------------------------------
\* Bounds of the model (not program constants)
\* ------------------------------------------------------------------------
MaxCommitted == 2     \* committed transcripts delivered by the transcript source
MaxPartials == 1      \* partial transcripts that interrupt
MaxChecks == 1        \* recurring checks started by the idle timer
\* cycles begun for committed transcripts
MaxUserCycles == 1
\* responses that hold tool_use blocks
MaxToolResponses == 1
\* transcripts, recurring checks and responses with tool_use blocks of a
\* session, taken together
MaxStimuli == 2
MaxDeltas == 1        \* text deltas of one streamed response
MaxTools == 2         \* tool_use blocks of one response
MaxVideoFrames == 1   \* screen frames received from the client
TutorialSteps == 2    \* steps of a tutorial made by the lesson creator
MaxImageTurns == 11   \* image-bearing turns of the history of a long session
MaxPlainTurns == 1    \* turns of that history whose user content is a string
MaxChunkLen == 3      \* characters of one text delta, where deltas are enumerated
MaxSttSockets == 3    \* websockets to the transcript source created in a session
MaxMainRounds == 4    \* responses with tool_use blocks, where a main cycle is followed
MaxAudioChunks == 3   \* agent_audio events sent to a client whose player is followed
MaxFrameEvents == 3   \* screen frames received, where the frame slot is followed

\* ------------------------------------------------------------------------
\* Program constants
\* ------------------------------------------------------------------------
MAX_CONTEXT_IMAGES == 10
MAX_TOOL_ROUNDS == 3

\* ------------------------------------------------------------------------
\* Turns and content blocks (messages of the Anthropic API)
\* ------------------------------------------------------------------------
\* Texts are abstracted to a tag and a number: which text it is, not its words.
NoText == <<"", 0>>
SESSION_START == <<"[SESSION_START]", 0>>
INTERRUPTED_PLACEHOLDER == <<"[Response interrupted by user]", 0>>
NoId == <<0, 0>>

Block(type, text, id, name, data) ==
  [type |-> type, text |-> text, id |-> id, name |-> name, data |-> data]
TextBlock(t) == Block("text", t, NoId, "", 0)
ImageBlock(d) == Block("image", NoText, NoId, "", d)
ToolUseBlock(id, name, input) == Block("tool_use", NoText, id, name, input)
ToolResultBlock(id, result) == Block("tool_result", <<result, 0>>, id, "", 0)

\* content is either a string or an array of blocks
Str(t) == [kind |-> "str", text |-> t, blocks |-> <<>>]
Arr(bs) == [kind |-> "arr", text |-> NoText, blocks |-> bs]
Turn(role, content) == [role |-> role, content |-> content]

IsType(b, t) == b.type = t
BlocksOf(content) == IF content.kind = "arr" THEN content.blocks ELSE <<>>
HasBlock(content, t) == \E i \in 1..Len(BlocksOf(content)) : BlocksOf(content)[i].type = t
IdsOf(content, t) ==
  LET IsT(b) == b.type = t
      bs == SelectSeq(BlocksOf(content), IsT)
  IN [i \in 1..Len(bs) |-> bs[i].id]
IsBlankText(t) == t[1] \in {"", " "}

\* ------------------------------------------------------------------------
\* Characters of streamed text
\* ------------------------------------------------------------------------
IsTerminator(c) == c \in {".", "!", "?"}
IsWhitespace(c) == c \in {" ", "\n", "\t"}
\* String.prototype.trim() leaves something
TrimNonEmpty(buf) == \E i \in 1..Len(buf) : ~IsWhitespace(buf[i])
\* /[.!?]\s/.exec(buf): index (1-based) of the first terminator that is followed
\* by whitespace, 0 when there is no match
SentenceEnd(buf) ==
  LET hits == {i \in 1..(Len(buf) - 1) : IsTerminator(buf[i]) /\ IsWhitespace(buf[i + 1])}
  IN IF hits = {} THEN 0 ELSE CHOOSE i \in hits : \A j \in hits : i <= j

\* ------------------------------------------------------------------------
\* Pure helpers of LiveAIModule
\* ------------------------------------------------------------------------
\* buildUserContent(text): the text alone, or the latest frame and the text
buildUserContent(frame, text) ==
  IF frame = 0 THEN Str(text) ELSE Arr(<<ImageBlock(frame), TextBlock(text)>>)

IsTextBlock(b) == b.type = "text"
IsNotImageBlock(b) == b.type # "image"

\* sanitizeConversation, for the turn at index i: an assistant turn with tool_use
\* blocks that is not followed by a user turn holding a tool_result is rewritten
SanitizedTurn(conv, i) ==
  LET msg == conv[i]
      blocks == BlocksOf(msg.content)
      validPair == /\ i < Len(conv)
                   /\ conv[i + 1].role = "user"
                   /\ HasBlock(conv[i + 1].content, "tool_result")
      textBlocks == SelectSeq(blocks, IsTextBlock)
  IN IF msg.role # "assistant" THEN msg
     ELSE IF ~HasBlock(msg.content, "tool_use") THEN msg
     ELSE IF validPair THEN msg
     ELSE IF Len(textBlocks) > 0 /\ \E k \in 1..Len(textBlocks) : ~IsBlankText(textBlocks[k].text)
          THEN Turn("assistant", IF Len(textBlocks) = 1 THEN Str(textBlocks[1].text)
                                                        ELSE Arr(textBlocks))
          ELSE Turn("assistant", Str(INTERRUPTED_PLACEHOLDER))

\* Mutation: the history is sent as it is
sanitizeConversation_Unchanged(conv) == conv

sanitizeConversation(conv) == [i \in 1..Len(conv) |-> SanitizedTurn(conv, i)]

ImageIndices(conv) ==
  {i \in 1..Len(conv) : conv[i].content.kind = "arr" /\ HasBlock(conv[i].content, "image")}

StrippedTurn(msg) ==
  LET textBlocks == SelectSeq(msg.content.blocks, IsNotImageBlock)
  IN Turn(msg.role, IF Len(textBlocks) = 1 /\ textBlocks[1].type = "text"
                    THEN Str(textBlocks[1].text)
                    ELSE Arr(textBlocks))

\* Mutation: the newest image-bearing turns are stripped, not the oldest
pruneOldImages_NewestStripped(conv) ==
  LET imageIndices == ImageIndices(conv)
      excess == Cardinality(imageIndices) - MAX_CONTEXT_IMAGES
      toStrip == {i \in imageIndices : Cardinality({j \in imageIndices : j > i}) < excess}
  IN IF excess <= 0 THEN conv
     ELSE [i \in 1..Len(conv) |-> IF i \in toStrip THEN StrippedTurn(conv[i]) ELSE conv[i]]

\* pruneOldImages: image blocks are removed from all but the last
\* MAX_CONTEXT_IMAGES image-bearing turns
pruneOldImages(conv) ==
  LET imageIndices == ImageIndices(conv)
      excess == Cardinality(imageIndices) - MAX_CONTEXT_IMAGES
      toStrip == {i \in imageIndices : Cardinality({j \in imageIndices : j < i}) < excess}
  IN IF excess <= 0 THEN conv
     ELSE [i \in 1..Len(conv) |-> IF i \in toStrip THEN StrippedTurn(conv[i]) ELSE conv[i]]

\* ------------------------------------------------------------------------
\* State
\* ------------------------------------------------------------------------
VARIABLES
  \* LiveAIModule fields
  currentConversation, isProcessing, interrupted, hasPendingUserMessage,
  isRecurringCheckRunning, recurringCheckCancelled, isAgentCurrentlySpeaking,
  latestFrame, sentenceBuffer, currentTutorial, currentStepIndex,
  socket,             \* this.socket is set (TRUE) or null (FALSE, after destroy)
  toolType,           \* this.toolType, "" before the first start_session
  \* ElevenLabsSTT
  sttWs,              \* this.ws: "none" (null), "connecting" or "open"
  sttConnected, sttShouldReconnect,
  sttTimerRef,        \* this.reconnectTimer refers to a timer that is pending
  sttLostTimers,      \* pending reconnect timers whose handle was overwritten
  sttStale,           \* websockets this.ws does not refer to any more and that
                      \* have not emitted 'close' yet, counted by their state
  sttSockets,         \* websockets to the transcript source created so far
  idleElapsed,        \* Date.now() - lastUserInputAt >= idleThresholdMs
  sessionStarted,     \* startSession has run once (tts exists, history non-empty)
  recurringCheckInterval,  \* the setInterval timer exists
  \* async invocations that are suspended at an await
  frames,
  nextCyc,            \* number of generator requests issued so far
  \* ClaudeService
  currentStream,      \* id of the streaming request abortStream would abort, 0 = null
  requests,           \* generator requests in flight, with the messages they carry
  \* ElevenLabsTTS
  ttsWs,              \* "none" (ws = null), "connecting" or "open"
  ttsConnected, ttsConnecting,
  ttsCalls,           \* sendTextChunk / sendText calls suspended in _ensureConnected
  wsTexts,            \* cycles whose text the open synthesizer connection holds
  \* what the latest event made the server send (to the client, to the synthesizer)
  out,
  \* bookkeeping of the environment
  nCommitted, nPartials, nChecks,
  \* history of the run, kept for the properties
  nUserCycles,        \* cycles begun for committed transcripts
  nToolResponses,     \* responses with tool_use blocks received
  chunkSeq,           \* number of sendTextChunk / sendText calls of the current cycle
  toolLog,            \* tool_use ids given to handleToolCall for the latest response
  \* the browser client (src/client/app.js): its audio player and the messages
  \* in flight between it and the server
  client,
  frameCount          \* this.frameCount: frames received; the k-th frame's data is k

vars == <<currentConversation, isProcessing, interrupted, hasPendingUserMessage,
          isRecurringCheckRunning, recurringCheckCancelled, isAgentCurrentlySpeaking,
          latestFrame, sentenceBuffer, currentTutorial, currentStepIndex, idleElapsed,
          sessionStarted, recurringCheckInterval, frames, nextCyc, currentStream,
          requests, ttsWs, ttsConnected, ttsConnecting, ttsCalls, wsTexts, out,
          nCommitted, nPartials, nChecks, nUserCycles, nToolResponses,
          chunkSeq,
          toolLog, socket, toolType, sttWs, sttConnected, sttShouldReconnect,
          sttTimerRef, sttLostTimers, sttStale, sttSockets, client, frameCount>>

\* ------------------------------------------------------------------------
\* The client's audio player (src/client/app.js)
\* ------------------------------------------------------------------------
\*   isSessionActive     state.isSessionActive; the player is followed from the
\*                       client's start of the session on, elsewhere its
\*                       audio_playback_ended messages are an input
\*   inbox               agent_audio and interrupt events in flight to the client
\*   outbox              audio_playback_ended messages in flight to the server
\*   audioQueue          state.audioQueue, the chunks by their number of arrival
\*   currentAudioSource  0 = null
\*   sources             buffer sources that were started and whose 'ended'
\*                       event has not fired: "playing", or "stopped" by stop()
\*   sent                agent_audio events sent so far
\*   lastStarted         history: the chunk whose source was started last
NoClient ==
  [isSessionActive |-> FALSE, inbox |-> <<>>, outbox |-> 0, audioQueue |-> <<>>,
   isPlayingAudio |-> FALSE, currentAudioSource |-> 0, sources |-> {},
   sent |-> 0, lastStarted |-> 0]

\* socket.emit / socket.volatile.emit of the events the player listens to
ToPlayer(e) == e.to = "client" /\ e.type \in {"agent_audio", "interrupt"}
Route(c, o) ==
  LET sel == SelectSeq(o, ToPlayer)
      AudioUpTo(i) == Cardinality({j \in 1..i : sel[j].type = "agent_audio"})
      msgs == [i \in 1..Len(sel) |->
                 [type |-> sel[i].type, cyc |-> sel[i].cyc,
                  id |-> IF sel[i].type = "agent_audio" THEN c.sent + AudioUpTo(i) ELSE 0]]
  IN IF ~c.isSessionActive THEN c
     ELSE [c EXCEPT !.inbox = @ \o msgs, !.sent = @ + AudioUpTo(Len(sel))]

\* playNextAudio(): nothing queued -> audio_playback_ended is emitted; else the
\* first chunk of the queue is started as a new buffer source
playNextAudio(c) ==
  IF c.audioQueue = <<>>
  THEN [c EXCEPT !.isPlayingAudio = FALSE, !.currentAudioSource = 0, !.outbox = @ + 1]
  ELSE LET id == Head(c.audioQueue)
       IN [c EXCEPT !.isPlayingAudio = TRUE, !.audioQueue = Tail(@),
                    !.currentAudioSource = id, !.lastStarted = id,
                    !.sources = @ \cup {[id |-> id, st |-> "playing"]}]

\* socket.on('agent_audio')
clientAgentAudio(c, id) ==
  IF ~c.isSessionActive THEN c
  ELSE LET c1 == [c EXCEPT !.audioQueue = Append(@, id)]
       IN IF ~c1.isPlayingAudio THEN playNextAudio(c1) ELSE c1

\* socket.on('interrupt'): the queue is emptied and the current source is
\* stopped; the 'ended' event of the stopped source is still to come
clientInterrupt(c) ==
  [c EXCEPT !.audioQueue = <<>>,
            !.sources = {IF src.id = c.currentAudioSource
                         THEN [src EXCEPT !.st = "stopped"] ELSE src : src \in @},
            !.currentAudioSource = 0, !.isPlayingAudio = FALSE, !.outbox = @ + 1]

\* source.onended, for a source that has played to its end or was stopped
clientSourceEnded(c, src) == playNextAudio([c EXCEPT !.sources = @ \ {src}])

\* The state as one record: the handlers below are written as functions from
\* state to state, so that calls compose as in the code.
Pack ==
  [currentConversation |-> currentConversation, isProcessing |-> isProcessing,
   interrupted |-> interrupted, hasPendingUserMessage |-> hasPendingUserMessage,
   isRecurringCheckRunning |-> isRecurringCheckRunning,
   recurringCheckCancelled |-> recurringCheckCancelled,
   isAgentCurrentlySpeaking |-> isAgentCurrentlySpeaking,
   latestFrame |-> latestFrame, sentenceBuffer |-> sentenceBuffer,
   currentTutorial |-> currentTutorial, currentStepIndex |-> currentStepIndex,
   idleElapsed |-> idleElapsed, sessionStarted |-> sessionStarted,
   recurringCheckInterval |-> recurringCheckInterval, frames |-> frames,
   nextCyc |-> nextCyc, currentStream |-> currentStream, requests |-> requests,
   ttsWs |-> ttsWs, ttsConnected |-> ttsConnected, ttsConnecting |-> ttsConnecting,
   ttsCalls |-> ttsCalls, wsTexts |-> wsTexts, out |-> <<>>,
   nCommitted |-> nCommitted, nPartials |-> nPartials, nChecks |-> nChecks,
   nUserCycles |-> nUserCycles, nToolResponses |-> nToolResponses,
   chunkSeq |-> chunkSeq, toolLog |-> toolLog, socket |-> socket,
   toolType |-> toolType, sttWs |-> sttWs, sttConnected |-> sttConnected,
   sttShouldReconnect |-> sttShouldReconnect, sttTimerRef |-> sttTimerRef,
   sttLostTimers |-> sttLostTimers, sttStale |-> sttStale, sttSockets |-> sttSockets,
   client |-> client, frameCount |-> frameCount]

Unpack(s) ==
  /\ currentConversation' = s.currentConversation
  /\ isProcessing' = s.isProcessing
  /\ interrupted' = s.interrupted
  /\ hasPendingUserMessage' = s.hasPendingUserMessage
  /\ isRecurringCheckRunning' = s.isRecurringCheckRunning
  /\ recurringCheckCancelled' = s.recurringCheckCancelled
  /\ isAgentCurrentlySpeaking' = s.isAgentCurrentlySpeaking
  /\ latestFrame' = s.latestFrame
  /\ sentenceBuffer' = s.sentenceBuffer
  /\ currentTutorial' = s.currentTutorial
  /\ currentStepIndex' = s.currentStepIndex
  /\ idleElapsed' = s.idleElapsed
  /\ sessionStarted' = s.sessionStarted
  /\ recurringCheckInterval' = s.recurringCheckInterval
  /\ frames' = s.frames
  /\ nextCyc' = s.nextCyc
  /\ currentStream' = s.currentStream
  /\ requests' = s.requests
  /\ ttsWs' = s.ttsWs
  /\ ttsConnected' = s.ttsConnected
  /\ ttsConnecting' = s.ttsConnecting
  /\ ttsCalls' = s.ttsCalls
  /\ wsTexts' = s.wsTexts
  /\ out' = s.out
  /\ nCommitted' = s.nCommitted
  /\ nPartials' = s.nPartials
  /\ nChecks' = s.nChecks
  /\ nUserCycles' = s.nUserCycles
  /\ nToolResponses' = s.nToolResponses
  /\ chunkSeq' = (IF s.frames = {} THEN 0 ELSE s.chunkSeq)
  /\ toolLog' = s.toolLog
  /\ socket' = s.socket
  /\ toolType' = s.toolType
  /\ sttWs' = s.sttWs
  /\ sttConnected' = s.sttConnected
  /\ sttShouldReconnect' = s.sttShouldReconnect
  /\ sttTimerRef' = s.sttTimerRef
  /\ sttLostTimers' = s.sttLostTimers
  /\ sttStale' = s.sttStale
  /\ sttSockets' = s.sttSockets
  /\ client' = Route(s.client, s.out)
  /\ frameCount' = s.frameCount

\* socket.emit(type, ...) and ws.send(...): appended to the outputs of this event
\* cyc: the cycle whose text the event carries; cut: whether that cycle had been
\* interrupted when the text left it ("int"), the agent speaking ("spk");
\* seq: the position of a text chunk among the chunks of its cycle
Event(to, type, cyc, tag, text) ==
  [to |-> to, type |-> type, cyc |-> cyc, tag |-> tag, text |-> text,
   cut |-> "", seq |-> 0]
Emit(s, type, cyc, tag) ==
  [s EXCEPT !.out = Append(@, Event("client", type, cyc, tag, <<>>))]

\* ------------------------------------------------------------------------
\* Suspended async invocations
\* ------------------------------------------------------------------------
\* One record per chain of nested async calls that is suspended at an await.
\*   root   who started the chain: "session" (startSession), "stt"
\*          (onCommittedTranscript) or "timer" (the setInterval callback)
\*   kind   "main" (sendToClaudeAndSpeak) or "rc" (recurring check)
\*   cyc    id of the cycle: of its generator request (main), of its first
\*          generator request (recurring check)
\*   req    id of the generator request the invocation issued last
\*   pc     the await it is suspended at; "hung" = a promise that never settles
\*   cut    history: handleInterruption ran during the cycle ("int"), while the
\*          agent was speaking ("spk")
NewFrame(root) ==
  [root |-> root, kind |-> "main", cyc |-> 0, cont |-> FALSE, pc |-> "start",
   aborted |-> FALSE, fullText |-> <<>>, nd |-> 0, resp |-> <<>>, ti |-> 0,
   results |-> <<>>, round |-> 0, toCommit |-> <<>>, isFirstText |-> TRUE,
   req |-> 0, userContent |-> Str(NoText), cut |-> ""]

Suspend(s, f, pc) == [s EXCEPT !.frames = @ \cup {[f EXCEPT !.pc = pc]}]
ActiveCycles(s) == {f.cyc : f \in s.frames}
ToolUses(content) == SelectSeq(content, LAMBDA b : b.type = "tool_use")

\* ------------------------------------------------------------------------
\* ElevenLabsTTS
\* ------------------------------------------------------------------------
TtsCall(cyc, kind, text, awaited, epoch, seq) ==
  [cyc |-> cyc, kind |-> kind, text |-> text, mode |-> "", awaited |-> awaited,
   epoch |-> epoch, seq |-> seq, cut |-> ""]

\* this.ws.send(JSON.stringify({text: ...})) of sendTextChunk ("chunk") and of
\* sendText ("text": trailing space added, flush requested)
wsSendText(s, call) ==
  LET payload == IF call.kind = "text" THEN call.text \o <<" ">> ELSE call.text
      ev == [Event("tts", call.kind, call.cyc, NoText, payload)
               EXCEPT !.cut = call.cut, !.seq = call.seq]
  IN [s EXCEPT !.out = Append(@, ev),
               !.wsTexts = @ \cup {[cyc |-> call.cyc, cut |-> call.cut]}]

\* The part of sendTextChunk / sendText after `await this._ensureConnected()`
afterEnsureConnected(s, call) ==
  IF s.ttsWs = "none" \/ ~s.ttsConnected THEN s
  ELSE wsSendText(s, call)

\* sendTextChunk(chunk) / sendText(text) up to its first await that waits for I/O:
\*   connected              -> the text is sent
\*   connecting             -> connect() polls in _waitForConnection  (mode "wait")
\*   otherwise              -> connect() opens a websocket and waits for its
\*                             'open' or 'error' event                (mode "connect")
sendTextChunk(s0, call) ==
  LET s == [s0 EXCEPT !.chunkSeq = @ + 1]
  IN IF s.ttsConnected THEN afterEnsureConnected(s, call)
     ELSE IF s.ttsConnecting
          THEN [s EXCEPT !.ttsCalls = Append(@, [call EXCEPT !.mode = "wait"])]
          ELSE [s EXCEPT !.ttsConnecting = TRUE, !.ttsWs = "connecting",
                         !.ttsCalls = Append(@, [call EXCEPT !.mode = "connect"])]

\* flush() and closeStream()
flush(s, cyc) ==
  IF s.ttsWs = "none" \/ ~s.ttsConnected THEN s
  ELSE [s EXCEPT !.out = Append(@, Event("tts", "flush", cyc, NoText, <<" ">>))]
closeStream(s, cyc) ==
  IF s.ttsWs = "none" \/ ~s.ttsConnected THEN s
  ELSE [s EXCEPT !.out = Append(@, Event("tts", "eos", cyc, NoText, <<>>))]

\* Mutation: interrupt() leaves the websocket as it is
ttsInterrupt_SocketKept(s) == s

\* interrupt(): the websocket's listeners are removed and it is closed, so the
\* promise of the connect() that opened it never settles; an invocation that
\* awaits it never resumes. Calls polling in _waitForConnection keep polling.
ttsInterrupt(s) ==
  IF s.ttsWs = "none" THEN s
  ELSE LET dead == {i \in 1..Len(s.ttsCalls) : s.ttsCalls[i].mode = "connect"}
           deadAwaited == {s.ttsCalls[i].cyc : i \in {j \in dead : s.ttsCalls[j].awaited}}
       IN [s EXCEPT !.ttsWs = "none", !.ttsConnected = FALSE, !.ttsConnecting = FALSE,
                    !.wsTexts = {},
                    !.ttsCalls = SelectSeq(@, LAMBDA c : c.mode # "connect"),
                    !.frames = {IF f.cyc \in deadAwaited /\ f.pc \in {"flushWait", "rcSpeak"}
                                THEN [f EXCEPT !.pc = "hung"] ELSE f : f \in @}]

\* ------------------------------------------------------------------------
\* ClaudeService
\* ------------------------------------------------------------------------
Request(cyc, kind, messages) == [cyc |-> cyc, kind |-> kind, messages |-> messages]

\* abortStream(): only a streaming request is held in currentStream
abortStream(s) ==
  IF s.currentStream = 0 THEN s
  ELSE [s EXCEPT !.requests = {r \in @ : r.cyc # s.currentStream},
                 !.frames = {IF f.cyc = s.currentStream /\ f.pc = "stream"
                             THEN [f EXCEPT !.aborted = TRUE] ELSE f : f \in @},
                 !.currentStream = 0]

\* ------------------------------------------------------------------------
\* LiveAIModule: interruption
\* ------------------------------------------------------------------------
\* History: the cycles that are active now, and the text they have handed to
\* sendTextChunk, count as interrupted from here on
CutMark(old, speaking) == IF speaking THEN "spk" ELSE IF old = "" THEN "int" ELSE old
MarkCut(s) ==
  [s EXCEPT !.frames = {[f EXCEPT !.cut = CutMark(@, s.isAgentCurrentlySpeaking)] : f \in @},
            !.ttsCalls = [i \in 1..Len(@) |->
                            IF @[i].cyc \in ActiveCycles(s)
                            THEN [@[i] EXCEPT !.cut = CutMark(@, s.isAgentCurrentlySpeaking)]
                            ELSE @[i]]]

\* (with this.socket null, this.socket.emit throws a TypeError and the last
\* statement is not reached)
handleInterruption(s) ==
  LET s1 == [MarkCut(s) EXCEPT !.interrupted = TRUE, !.recurringCheckCancelled = TRUE]
      s2 == ttsInterrupt(abortStream(s1))
  IN IF s2.socket
     THEN [Emit(s2, "interrupt", 0, NoText) EXCEPT !.isAgentCurrentlySpeaking = FALSE]
     ELSE s2

\* ------------------------------------------------------------------------
\* LiveAIModule: the main cycle, sendToClaudeAndSpeak
\* ------------------------------------------------------------------------
\* What the caller at the root of a chain does once its await returns:
\* startSession starts the recurring-check timer and emits session_started;
\* onCommittedTranscript and the timer callback just end.
RootTail(s, f) ==
  IF f.root = "session"
  THEN IF s.socket
       THEN Emit([s EXCEPT !.recurringCheckInterval = TRUE], "session_started", 0, NoText)
       ELSE [s EXCEPT !.recurringCheckInterval = TRUE]
  ELSE s

\* sendToClaudeAndSpeak(isContinuation) up to `await getStreamingResponse(...)`
sendToClaudeAndSpeak(s, f, isContinuation) ==
  IF s.isProcessing THEN RootTail(s, f)
  ELSE LET c == s.nextCyc + 1
           conv == pruneOldImages(sanitizeConversation(s.currentConversation))
           g == [f EXCEPT !.kind = "main", !.cyc = c, !.req = c, !.cont = isContinuation,
                          !.aborted = FALSE, !.fullText = <<>>, !.nd = 0, !.resp = <<>>,
                          !.ti = 0, !.results = <<>>, !.cut = ""]
       IN Suspend([s EXCEPT !.isProcessing = TRUE, !.interrupted = FALSE,
                            !.currentConversation = conv, !.sentenceBuffer = <<>>,
                            !.nextCyc = c, !.currentStream = c,
                            !.nUserCycles = IF isContinuation \/ s.nextCyc = 0
                                            THEN @ ELSE @ + 1,
                            !.requests = @ \cup {Request(c, "stream", conv)},
                            !.chunkSeq = 0],
                  g, "stream")

\* The finally block: isProcessing is released and a queued user message starts
\* a fresh cycle. (When the call returns to an enclosing sendToClaudeAndSpeak or
\* recurring check, that caller's finally block runs next and finds
\* isProcessing false and nothing queued.)
mainFinally(s, f) ==
  LET s1 == [s EXCEPT !.isProcessing = FALSE]
  IN IF s1.hasPendingUserMessage
     THEN sendToClaudeAndSpeak([s1 EXCEPT !.hasPendingUserMessage = FALSE], f, FALSE)
     ELSE RootTail(s1, f)

\* handleProgressedStep, handleSuggestedHotKey and the default case of
\* handleToolCall: they return without awaiting I/O
syncToolState(s, b) ==
  IF b.name = "Progressed_Step"
  THEN IF s.socket
       THEN Emit([s EXCEPT !.currentStepIndex = b.data - 1], "step_update", 0, NoText)
       ELSE [s EXCEPT !.currentStepIndex = b.data - 1]
  ELSE IF b.name = "Suggested_HotKey" /\ s.socket THEN Emit(s, "hotkey_display", 0, NoText)
  ELSE s
\* The handler of tool_use block b throws: every handler of a known tool calls
\* this.socket.emit outside a try block, which is a TypeError once socket is null
toolThrows(s, b) ==
  ~s.socket /\ b.name \in {"Create_Tutorial", "Progressed_Step", "Suggested_HotKey"}
\* Mutation: an unknown tool name is answered like a known one
syncToolResult_UnknownSucceeds(b) ==
  IF b.name = "Suggested_HotKey" THEN "displayed" ELSE "success"

syncToolResult(b) ==
  IF b.name = "Progressed_Step" THEN "success"
  ELSE IF b.name = "Suggested_HotKey" THEN "displayed"
  ELSE "error"

\* Mutation: the batch is cut down to its first result
toolResultTurn_FirstOnly(results) == Turn("user", Arr(SubSeq(results, 1, 1)))

\* The user turn that carries the results of one batch of tool calls
toolResultTurn(results) == Turn("user", Arr(results))

\* Tool-result turns that follow the last utterance or greeting of the history
TrailingToolRounds(conv) ==
  LET plain == {i \in 1..Len(conv) :
                  conv[i].role = "user" /\ ~HasBlock(conv[i].content, "tool_result")}
  IN Cardinality({i \in 1..Len(conv) :
                    /\ HasBlock(conv[i].content, "tool_result")
                    /\ \A j \in plain : j < i})

\* Mutation: the main cycle stops after MAX_TOOL_ROUNDS follow-up requests
mainAfterTools_Capped(s, f) ==
  IF /\ Len(ToolUses(f.resp)) > 0 /\ ~s.interrupted
     /\ TrailingToolRounds(s.currentConversation) < MAX_TOOL_ROUNDS
  THEN sendToClaudeAndSpeak(
         [s EXCEPT !.currentConversation = Append(@, toolResultTurn(f.results)),
                   !.isProcessing = FALSE],
         f, TRUE)
  ELSE mainFinally(s, f)

\* Mutation: the results turn is appended and the cycle recurses although the
\* cycle was interrupted
mainAfterTools_InterruptIgnored(s, f) ==
  IF Len(ToolUses(f.resp)) > 0
  THEN sendToClaudeAndSpeak(
         [s EXCEPT !.currentConversation = Append(@, toolResultTurn(f.results)),
                   !.isProcessing = FALSE],
         f, TRUE)
  ELSE mainFinally(s, f)

\* After the tool loop: the results turn is appended and the cycle recurses,
\* unless the cycle was interrupted (or there were no tool_use blocks)
mainAfterTools(s, f) ==
  IF Len(ToolUses(f.resp)) > 0 /\ ~s.interrupted
  THEN sendToClaudeAndSpeak(
         [s EXCEPT !.currentConversation = Append(@, toolResultTurn(f.results)),
                   !.isProcessing = FALSE],
         f, TRUE)
  ELSE mainFinally(s, f)

\* The tool loop from tool_use block i on; Create_Tutorial awaits the lesson
\* creator, the other handlers return at once
RECURSIVE mainTools(_, _, _)
mainTools(s, f, i) ==
  LET uses == ToolUses(f.resp)
  IN IF i > Len(uses) \/ s.interrupted THEN mainAfterTools(s, f)
     ELSE LET b == uses[i]
              s1 == [s EXCEPT !.toolLog = Append(@, b.id)]
          IN IF toolThrows(s1, b) THEN mainFinally(syncToolState(s1, b), f)
             ELSE IF b.name = "Create_Tutorial"
             THEN Suspend(Emit(s1, "tutorial_loading", 0, NoText), [f EXCEPT !.ti = i], "tool")
             ELSE mainTools(syncToolState(s1, b),
                            [f EXCEPT !.results =
                               Append(@, ToolResultBlock(b.id, syncToolResult(b)))],
                            i + 1)

\* After the text has been handed to the synthesizer: agent_text is emitted, the
\* assistant turn appended, the tool calls processed
mainPostSpeak(s, f) ==
  LET s1 == IF f.fullText # <<>>
            THEN Emit(s, IF f.cont THEN "agent_text_continue" ELSE "agent_text",
                      f.cyc, <<"resp", f.cyc>>)
            ELSE s
      s2 == [s1 EXCEPT !.currentConversation = Append(@, Turn("assistant", Arr(f.resp))),
                       !.toolLog = <<>>]
  IN IF f.fullText # <<>> /\ ~s.socket THEN mainFinally(s, f)
     ELSE mainTools(s2, f, 1)

mainFlushAndClose(s, f) == mainPostSpeak(closeStream(flush(s, f.cyc), f.cyc), f)

\* The continuation of `await this.tts.sendTextChunk(this.sentenceBuffer + ' ')`
mainAfterFinalChunk(s, f) == mainFlushAndClose([s EXCEPT !.sentenceBuffer = <<>>], f)

\* The continuation of `await getStreamingResponse(...)` when it returns
mainAfterStream(s, f) ==
  IF s.interrupted THEN mainFinally(s, f)
  ELSE IF TrimNonEmpty(s.sentenceBuffer)
       THEN LET call == [TtsCall(f.cyc, "chunk", s.sentenceBuffer \o <<" ">>, TRUE,
                                 f.nd + 1, s.chunkSeq + 1) EXCEPT !.cut = f.cut]
            IN IF s.ttsConnected
               THEN mainAfterFinalChunk(sendTextChunk(s, call), f)
               ELSE Suspend(sendTextChunk(s, call), f, "flushWait")
       ELSE mainFlushAndClose(s, f)

\* handleTextChunkForTTS(chunk): the loop that cuts complete sentences off the
\* buffer; sendTextChunk is called without await
RECURSIVE cutSentences(_, _)
cutSentences(s, f) ==
  LET m == SentenceEnd(s.sentenceBuffer)
  IN IF m = 0 \/ s.interrupted THEN s
     ELSE LET sentence == SubSeq(s.sentenceBuffer, 1, m + 1)
              rest == SubSeq(s.sentenceBuffer, m + 2, Len(s.sentenceBuffer))
              call == [TtsCall(f.cyc, "chunk", sentence, FALSE, f.nd, s.chunkSeq + 1)
                         EXCEPT !.cut = f.cut]
          IN cutSentences([sendTextChunk(s, call) EXCEPT !.sentenceBuffer = rest], f)

handleTextChunkForTTS(s, f, chunk) ==
  IF s.interrupted THEN s
  ELSE cutSentences([s EXCEPT !.sentenceBuffer = @ \o chunk], f)

\* ------------------------------------------------------------------------
\* LiveAIModule: the recurring check (the setInterval callback)
\* ------------------------------------------------------------------------
NO_GUIDANCE_NEEDED == "[NO_GUIDANCE_NEEDED]"
\* The words of a guidance text as they are sent to the synthesizer
GuidanceText == <<"g", ".">>

\* currentResponse.content.find(c => c.type === 'text')?.text || ''
FirstText(content) ==
  LET ts == SelectSeq(content, IsTextBlock)
  IN IF Len(ts) = 0 THEN NoText ELSE ts[1].text

\* The finally block of the timer callback
rcFinally(s, f) ==
  LET s1 == [s EXCEPT !.isRecurringCheckRunning = FALSE,
                      !.recurringCheckCancelled = FALSE, !.isProcessing = FALSE]
  IN IF s1.hasPendingUserMessage
     THEN sendToClaudeAndSpeak([s1 EXCEPT !.hasPendingUserMessage = FALSE], f, FALSE)
     ELSE RootTail(s1, f)

\* The final cancellation check and the commit of all provisional turns
rcCommit(s, f) ==
  IF s.recurringCheckCancelled THEN rcFinally(s, f)
  ELSE rcFinally([s EXCEPT !.currentConversation = @ \o f.toCommit], f)

\* Mutation: the check follows up once more before it stops
rcAfterTools_OneMoreRound(s, f) ==
  LET f1 == [f EXCEPT !.toCommit = Append(@, toolResultTurn(f.results))]
      c == s.nextCyc + 1
  IN IF f.round = MAX_TOOL_ROUNDS + 1 THEN rcCommit(s, f1)
     ELSE IF s.recurringCheckCancelled THEN rcFinally(s, f1)
     ELSE Suspend([s EXCEPT !.nextCyc = c,
                            !.requests = @ \cup
                               {Request(c, "plain", s.currentConversation \o f1.toCommit)}],
                  [f1 EXCEPT !.req = c], "rcFollow")

\* After the tool loop of a round: the results turn becomes provisional, then
\* the follow-up request is issued unless this was the last round
rcAfterTools(s, f) ==
  LET f1 == [f EXCEPT !.toCommit = Append(@, toolResultTurn(f.results))]
      c == s.nextCyc + 1
  IN IF f.round = MAX_TOOL_ROUNDS THEN rcCommit(s, f1)
     ELSE IF s.recurringCheckCancelled THEN rcFinally(s, f1)
     ELSE Suspend([s EXCEPT !.nextCyc = c,
                            !.requests = @ \cup
                               {Request(c, "plain", s.currentConversation \o f1.toCommit)}],
                  [f1 EXCEPT !.req = c], "rcFollow")

RECURSIVE rcTools(_, _, _)
rcTools(s, f, i) ==
  LET uses == ToolUses(f.resp)
  IN IF Len(uses) = 0 THEN rcCommit(s, f)
     ELSE IF i > Len(uses) THEN rcAfterTools(s, f)
     ELSE IF s.recurringCheckCancelled THEN rcFinally(s, f)
     ELSE LET b == uses[i]
              s1 == [s EXCEPT !.toolLog = Append(@, b.id)]
          IN IF toolThrows(s1, b) THEN rcFinally(syncToolState(s1, b), f)
             ELSE IF b.name = "Create_Tutorial"
             THEN Suspend(Emit(s1, "tutorial_loading", 0, NoText), [f EXCEPT !.ti = i], "rcTool")
             ELSE rcTools(syncToolState(s1, b),
                          [f EXCEPT !.results =
                             Append(@, ToolResultBlock(b.id, syncToolResult(b)))],
                          i + 1)

\* The continuation of `await this.tts.sendText(text)`
rcAfterSpeak(s, f) ==
  IF s.recurringCheckCancelled THEN rcFinally(s, f)
  ELSE rcTools([s EXCEPT !.toolLog = <<>>], [f EXCEPT !.isFirstText = FALSE], 1)

\* One round of the loop, from its top to its first await
rcRound(s, f) ==
  LET text == FirstText(f.resp)
      f1 == [f EXCEPT !.toCommit = Append(@, Turn("assistant", Arr(f.resp))),
                      !.results = <<>>, !.ti = 0]
      s1 == Emit(s, IF f.isFirstText THEN "agent_text" ELSE "agent_text_continue",
                 f.cyc, text)
      call == [TtsCall(f.cyc, "text", GuidanceText, TRUE, 0, s.chunkSeq + 1)
                 EXCEPT !.cut = f.cut]
  IN IF s.recurringCheckCancelled THEN rcFinally(s, f)
     ELSE IF text[1] = NO_GUIDANCE_NEEDED THEN rcFinally(s, f)
     ELSE IF text # NoText /\ ~s.socket THEN rcFinally(s, f)
     ELSE IF text # NoText
          THEN IF s.ttsConnected
               THEN rcAfterSpeak(sendTextChunk(s1, call), f1)
               ELSE Suspend(sendTextChunk(s1, call), f1, "rcSpeak")
          ELSE rcTools([s EXCEPT !.toolLog = <<>>], f1, 1)

\* The timer callback from its guards to `await this.claude.getResponse(...)`
startRecurringCheckRun(s) ==
  LET c == s.nextCyc + 1
      userContent == buildUserContent(s.latestFrame, <<"[RECURRING_SCREEN_CHECK]", c>>)
      conv == pruneOldImages(sanitizeConversation(s.currentConversation))
      checkMessages == Append(conv, Turn("user", userContent))
      f == [NewFrame("timer") EXCEPT !.kind = "rc", !.cyc = c, !.req = c,
                                     !.userContent = userContent]
  IN Suspend([s EXCEPT !.isRecurringCheckRunning = TRUE,
                       !.recurringCheckCancelled = FALSE, !.isProcessing = TRUE,
                       !.currentConversation = conv, !.nextCyc = c,
                       !.requests = @ \cup {Request(c, "plain", checkMessages)},
                       !.chunkSeq = 0, !.nChecks = @ + 1],
             f, "rcFirst")

\* Mutation: the timer does not look at isAgentCurrentlySpeaking
timerGuardsPass_SpeakingIgnored(s) ==
  /\ ~s.isRecurringCheckRunning
  /\ ~s.isProcessing
  /\ s.idleElapsed
  /\ s.latestFrame # 0

\* Mutation: the timer does not look at isProcessing
timerGuardsPass_ProcessingIgnored(s) ==
  /\ ~s.isRecurringCheckRunning
  /\ ~s.isAgentCurrentlySpeaking
  /\ s.idleElapsed
  /\ s.latestFrame # 0

\* The guards of the timer callback
timerGuardsPass(s) ==
  /\ ~s.isRecurringCheckRunning
  /\ ~s.isAgentCurrentlySpeaking
  /\ ~s.isProcessing
  /\ s.idleElapsed
  /\ s.latestFrame # 0

\* The setInterval callback: a check starts when the guards pass, else nothing
timerCallback(s) == IF timerGuardsPass(s) THEN startRecurringCheckRun(s) ELSE s

\* Mutation: the check prompt is pushed to the history when the first response
\* is there, not with the commit
rcAfterResponse_PromptPushed(s, f, content) ==
  IF f.pc = "rcFirst"
  THEN IF s.recurringCheckCancelled THEN rcFinally(s, f)
       ELSE rcRound([s EXCEPT !.currentConversation = Append(@, Turn("user", f.userContent))],
                    [f EXCEPT !.toCommit = <<>>,
                              !.resp = content, !.round = 0, !.isFirstText = TRUE])
  ELSE rcRound(s, [f EXCEPT !.resp = content, !.round = @ + 1])

\* The continuation of the first / of a follow-up `await getResponse(...)`
rcAfterResponse(s, f, content) ==
  IF f.pc = "rcFirst"
  THEN IF s.recurringCheckCancelled THEN rcFinally(s, f)
       ELSE rcRound(s, [f EXCEPT !.toCommit = <<Turn("user", f.userContent)>>,
                                 !.resp = content, !.round = 0, !.isFirstText = TRUE])
  ELSE rcRound(s, [f EXCEPT !.resp = content, !.round = @ + 1])

\* ------------------------------------------------------------------------
\* Resuming a suspended invocation
\* ------------------------------------------------------------------------
\* A sendTextChunk / sendText call that a cycle awaits has returned
resumeAfterSend(s, f) ==
  IF f.kind = "main" THEN mainAfterFinalChunk(s, f) ELSE rcAfterSpeak(s, f)

\* ... or has thrown (the websocket's 'error' event rejected connect())
resumeAfterSendError(s, f) ==
  IF f.kind = "main" THEN mainFinally(s, f) ELSE rcFinally(s, f)

\* Mutation: a failed generation leaves a tutorial loaded
afterCreateTutorial_FailureLoadsTutorial(s, f, ok) ==
  LET b == ToolUses(f.resp)[f.ti]
      s1 == IF ok
            THEN Emit([s EXCEPT !.currentTutorial = TutorialSteps, !.currentStepIndex = 0],
                      "tutorial_ready", 0, NoText)
            ELSE Emit([s EXCEPT !.currentTutorial = TutorialSteps], "tutorial_error", 0, NoText)
      f1 == [f EXCEPT !.results =
               Append(@, ToolResultBlock(b.id, IF ok THEN "success" ELSE "failure"))]
  IN IF f.kind = "main" THEN mainTools(s1, f1, f.ti + 1) ELSE rcTools(s1, f1, f.ti + 1)

\* handleCreateTutorial after `await this.lessonCreator.generate(...)`, and the
\* rest of the tool loop
afterCreateTutorial(s, f, ok) ==
  LET b == ToolUses(f.resp)[f.ti]
      s1 == IF ok
            THEN Emit([s EXCEPT !.currentTutorial = TutorialSteps, !.currentStepIndex = 0],
                      "tutorial_ready", 0, NoText)
            ELSE Emit(s, "tutorial_error", 0, NoText)
      f1 == [f EXCEPT !.results =
               Append(@, ToolResultBlock(b.id, IF ok THEN "success" ELSE "failure"))]
      s2 == IF ok THEN [s EXCEPT !.currentTutorial = TutorialSteps, !.currentStepIndex = 0]
            ELSE s
  IN IF ~s.socket
     THEN IF f.kind = "main" THEN mainFinally(s2, f) ELSE rcFinally(s2, f)
     ELSE IF f.kind = "main" THEN mainTools(s1, f1, f.ti + 1) ELSE rcTools(s1, f1, f.ti + 1)

\* ------------------------------------------------------------------------
\* Inputs: what the providers and the client may send
\* ------------------------------------------------------------------------
\* Text deltas of a streamed response
Deltas == {<<"a", ".", " ", "b", ".", " ", "c">>, <<"c">>}

\* Tool batches of a response: n consecutive names of ToolCycle from a start
ToolCycle == <<"Create_Tutorial", "Progressed_Step", "Bogus_Tool", "Suggested_HotKey">>
ToolStarts == {1, 3}
ToolBatch(req, start, n) ==
  [j \in 1..n |-> ToolUseBlock(<<req, j>>, ToolCycle[((start + j - 2) % 4) + 1], j + 1)]
ResponseContent(req, text, start, n) ==
  (IF text = NoText THEN <<>> ELSE <<TextBlock(text)>>) \o ToolBatch(req, start, n)

\* The session begins at most MaxUserCycles cycles for committed transcripts: a
\* transcript that makes a further cycle necessary is delivered only while one
\* is left
UserCycleLeft ==
  nUserCycles + (IF hasPendingUserMessage THEN 1 ELSE 0) < MaxUserCycles

StimulusLeft == nCommitted + nPartials + nChecks + nToolResponses < MaxStimuli
ToolResponseLeft == nToolResponses < MaxToolResponses /\ StimulusLeft
\* A response with n tool_use blocks has been received
ResponseReceived(s, n) == [s EXCEPT !.nToolResponses = IF n > 0 THEN @ + 1 ELSE @]
CheckLeft == nChecks < MaxChecks /\ StimulusLeft

Take(s, f) == [s EXCEPT !.frames = @ \ {f}]
RemoveAt(sq, i) == SubSeq(sq, 1, i - 1) \o SubSeq(sq, i + 1, Len(sq))
AwaitingSend(s, call) ==
  {f \in s.frames : f.cyc = call.cyc /\ f.pc \in {"flushWait", "rcSpeak"}}

\* ------------------------------------------------------------------------
\* ElevenLabsSTT
\* ------------------------------------------------------------------------
NoStale == [closing |-> 0, connecting |-> 0, open |-> 0]

\* connect(): nothing while this.ws is set, else a new websocket
sttConnect(s) ==
  IF s.sttWs # "none" THEN s
  ELSE [s EXCEPT !.sttShouldReconnect = TRUE, !.sttWs = "connecting",
                 !.sttSockets = @ + 1]

\* disconnect(): the timer this.reconnectTimer refers to is cleared, the
\* websocket is closed and forgotten; its 'close' event is still to come
sttDisconnect(s) ==
  LET s1 == [s EXCEPT !.sttShouldReconnect = FALSE, !.sttTimerRef = FALSE]
  IN IF s1.sttWs = "none" THEN s1
     ELSE [s1 EXCEPT !.sttWs = "none", !.sttConnected = FALSE,
                     !.sttStale.closing = @ + 1]

\* The 'close' listener of a websocket, whichever websocket this.ws refers to
\* by now: this.ws is forgotten, and a reconnect timer is set unless
\* disconnect() was called; the handle of a timer still pending is overwritten
sttOnClose(s) ==
  LET s1 == IF s.sttWs = "none" THEN s
            ELSE [s EXCEPT !.sttStale[s.sttWs] = @ + 1]
      s2 == [s1 EXCEPT !.sttConnected = FALSE, !.sttWs = "none"]
  IN IF s2.sttShouldReconnect
     THEN [s2 EXCEPT !.sttLostTimers = IF s2.sttTimerRef THEN @ + 1 ELSE @,
                     !.sttTimerRef = TRUE]
     ELSE s2

\* ------------------------------------------------------------------------
\* Event handlers of LiveAIModule
\* ------------------------------------------------------------------------
\* startSession(data), first start
startSession(s) ==
  LET s1 == IF s.sttConnected THEN s ELSE sttConnect(s)
  IN sendToClaudeAndSpeak(
       [s1 EXCEPT !.sessionStarted = TRUE,
                  !.currentConversation = Append(@, Turn("user", Str(SESSION_START)))],
       NewFrame("session"), FALSE)

\* The rejection of an async handler nobody awaits: process.on('unhandledRejection')
\* logs its reason
ReportRejection(s) ==
  [s EXCEPT !.out = Append(@, Event("log", "unhandled_rejection", 0, NoText, <<>>))]

\* Tool types for which agents/<toolType>-tutor.json exists
ConfiguredTools == {"blender", "figma"}

\* Mutation: every start_session is handled as a first start
startSessionEvent_RestartGreets(s, tt) ==
  IF tt \notin ConfiguredTools THEN ReportRejection([s EXCEPT !.toolType = tt])
  ELSE startSession([s EXCEPT !.toolType = tt])

\* Mutation: the greeting turn is pushed before the configuration is loaded
startSessionEvent_TurnBeforeConfig(s, tt) ==
  IF s.currentConversation # <<>>
  THEN LET s1 == IF s.sttConnected THEN s ELSE sttConnect(s)
       IN IF s1.socket THEN Emit(s1, "session_started", 0, NoText) ELSE ReportRejection(s1)
  ELSE IF tt \notin ConfiguredTools
       THEN ReportRejection([s EXCEPT !.toolType = tt,
                                      !.currentConversation =
                                         Append(@, Turn("user", Str(SESSION_START)))])
       ELSE startSession([s EXCEPT !.toolType = tt])

\* startSession(data) with data.toolType = tt, first start or restart: on a
\* restart only the transcript source is reconnected; on a first start
\* require() throws when the tool type has no agent configuration
startSessionEvent(s, tt) ==
  IF s.currentConversation # <<>>
  THEN LET s1 == IF s.sttConnected THEN s ELSE sttConnect(s)
       IN IF s1.socket THEN Emit(s1, "session_started", 0, NoText) ELSE ReportRejection(s1)
  ELSE IF tt \notin ConfiguredTools THEN ReportRejection([s EXCEPT !.toolType = tt])
       ELSE startSession([s EXCEPT !.toolType = tt])

\* Mutation: a partial transcript interrupts only speech and recurring checks
onPartialTranscript_ProcessingIgnored(s, blank) ==
  IF blank THEN s
  ELSE IF s.isAgentCurrentlySpeaking \/ s.isRecurringCheckRunning
       THEN handleInterruption([s EXCEPT !.nPartials = @ + 1])
       ELSE s

onPartialTranscript(s, blank) ==
  IF blank THEN s
  ELSE IF s.isAgentCurrentlySpeaking \/ s.isProcessing \/ s.isRecurringCheckRunning
       THEN handleInterruption([s EXCEPT !.nPartials = @ + 1])
       ELSE s

\* Mutation: a transcript that arrives during a cycle is not queued
queueOrStart_NotQueued(s) ==
  IF s.isProcessing THEN s
  ELSE sendToClaudeAndSpeak(s, NewFrame("stt"), FALSE)

\* The last lines of onCommittedTranscript: queue the message or start a cycle
queueOrStart(s) ==
  IF s.isProcessing THEN [s EXCEPT !.hasPendingUserMessage = TRUE]
  ELSE sendToClaudeAndSpeak(s, NewFrame("stt"), FALSE)

\* Mutation: a transcript that arrives during a cycle is queued without its turn
onCommittedTranscript_TurnNotAppendedWhenBusy(s, blank) ==
  IF blank THEN s
  ELSE LET k == s.nCommitted + 1
           conv == s.currentConversation
           conv1 == IF Len(conv) > 0 /\ conv[Len(conv)].role = "user"
                    THEN Append(conv, Turn("assistant", Str(INTERRUPTED_PLACEHOLDER)))
                    ELSE conv
           conv2 == Append(conv1, Turn("user", buildUserContent(s.latestFrame, <<"user", k>>)))
           s1 == Emit([s EXCEPT !.nCommitted = k, !.idleElapsed = FALSE,
                                !.currentConversation = IF s.isProcessing THEN conv ELSE conv2],
                      "user_text", 0, <<"user", k>>)
       IN queueOrStart(handleInterruption(s1))

\* Mutation: the user turn is appended without a look at the last turn
onCommittedTranscript_NoPlaceholder(s, blank) ==
  IF blank THEN s
  ELSE LET k == s.nCommitted + 1
           conv2 == Append(s.currentConversation,
                           Turn("user", buildUserContent(s.latestFrame, <<"user", k>>)))
           s1 == Emit([s EXCEPT !.nCommitted = k, !.idleElapsed = FALSE,
                                !.currentConversation = conv2],
                      "user_text", 0, <<"user", k>>)
       IN queueOrStart(handleInterruption(s1))

onCommittedTranscript(s, blank) ==
  IF blank THEN s
  ELSE IF ~s.socket
  THEN LET conv == s.currentConversation
           conv1 == IF Len(conv) > 0 /\ conv[Len(conv)].role = "user"
                    THEN Append(conv, Turn("assistant", Str(INTERRUPTED_PLACEHOLDER)))
                    ELSE conv
       IN [s EXCEPT !.nCommitted = @ + 1, !.idleElapsed = FALSE,
                    !.currentConversation =
                       Append(conv1, Turn("user", buildUserContent(s.latestFrame,
                                                                   <<"user", s.nCommitted + 1>>)))]
  ELSE LET k == s.nCommitted + 1
           conv == s.currentConversation
           conv1 == IF Len(conv) > 0 /\ conv[Len(conv)].role = "user"
                    THEN Append(conv, Turn("assistant", Str(INTERRUPTED_PLACEHOLDER)))
                    ELSE conv
           conv2 == Append(conv1, Turn("user", buildUserContent(s.latestFrame, <<"user", k>>)))
           s1 == Emit([s EXCEPT !.nCommitted = k, !.idleElapsed = FALSE,
                                !.currentConversation = conv2],
                      "user_text", 0, <<"user", k>>)
       IN queueOrStart(handleInterruption(s1))

\* Mutation: a frame is stored only while the slot is empty
handleFrame_FirstKept(s) ==
  [s EXCEPT !.frameCount = @ + 1, !.latestFrame = IF @ = 0 THEN s.frameCount + 1 ELSE @]

\* Frames are numbered in the order of their arrival (this.frameCount)
handleFrame(s) == [s EXCEPT !.frameCount = @ + 1, !.latestFrame = s.frameCount + 1]

\* w: the text the audio was synthesized from
onTTSAudioChunk(s, w) ==
  IF s.interrupted \/ ~s.socket THEN s
  ELSE [s EXCEPT !.out = Append(@, [Event("client", "agent_audio", w.cyc, NoText, <<>>)
                                      EXCEPT !.cut = w.cut]),
                 !.isAgentCurrentlySpeaking = TRUE]

onAudioPlaybackEnded(s) == [s EXCEPT !.isAgentCurrentlySpeaking = FALSE]

\* The onTextChunk callback given to getStreamingResponse
onTextChunk(s, f, chunk) ==
  IF s.interrupted THEN Suspend(s, f, "stream")
  ELSE LET f1 == [f EXCEPT !.fullText = @ \o chunk, !.nd = @ + 1]
       IN Suspend(handleTextChunkForTTS(s, f1, chunk), f1, "stream")

\* getStreamingResponse / getResponse is over: currentStream = null in the finally
requestDone(s, f) ==
  [s EXCEPT !.requests = {r \in @ : r.cyc # f.req},
            !.currentStream = IF f.kind = "main" THEN 0 ELSE @]

\* ------------------------------------------------------------------------
\* Actions
\* ------------------------------------------------------------------------
Init ==
  /\ currentConversation = <<>>
  /\ isProcessing = FALSE
  /\ interrupted = FALSE
  /\ hasPendingUserMessage = FALSE
  /\ isRecurringCheckRunning = FALSE
  /\ recurringCheckCancelled = FALSE
  /\ isAgentCurrentlySpeaking = FALSE
  /\ latestFrame = 0
  /\ sentenceBuffer = <<>>
  /\ currentTutorial = 0
  /\ currentStepIndex = 0
  /\ idleElapsed = TRUE
  /\ sessionStarted = FALSE
  /\ recurringCheckInterval = FALSE
  /\ frames = {}
  /\ nextCyc = 0
  /\ currentStream = 0
  /\ requests = {}
  /\ ttsWs = "none"
  /\ ttsConnected = FALSE
  /\ ttsConnecting = FALSE
  /\ ttsCalls = <<>>
  /\ wsTexts = {}
  /\ out = <<>>
  /\ nCommitted = 0
  /\ nPartials = 0
  /\ nChecks = 0
  /\ nUserCycles = 0
  /\ nToolResponses = 0
  /\ chunkSeq = 0
  /\ toolLog = <<>>
  /\ socket = TRUE
  /\ toolType = ""
  /\ sttWs = "none"
  /\ sttConnected = FALSE
  /\ sttShouldReconnect = FALSE
  /\ sttTimerRef = FALSE
  /\ sttLostTimers = 0
  /\ sttStale = NoStale
  /\ sttSockets = 0
  /\ client = NoClient
  /\ frameCount = 0

\* socket 'start_session'
StartSession ==
  /\ ~sessionStarted
  /\ Unpack(startSession([Pack EXCEPT !.toolType = "blender"]))

\* stt 'partial_transcript'; a transcript may come at any time of a started
\* session (the websocket of the transcript source is followed in SessionSpec)
PartialTranscript ==
  /\ sessionStarted
  /\ nPartials < MaxPartials /\ StimulusLeft
  /\ \E blank \in BOOLEAN : Unpack(onPartialTranscript(Pack, blank))

\* stt 'committed_transcript'
CommittedTranscript ==
  /\ sessionStarted
  /\ nCommitted < MaxCommitted /\ StimulusLeft
  /\ hasPendingUserMessage \/ UserCycleLeft
  /\ \E blank \in BOOLEAN : Unpack(onCommittedTranscript(Pack, blank))

\* socket 'frame'
Frame ==
  /\ sessionStarted
  /\ latestFrame < MaxVideoFrames
  /\ Unpack(handleFrame(Pack))

\* socket 'audio_playback_ended'
AudioPlaybackEnded ==
  /\ isAgentCurrentlySpeaking
  /\ Unpack(onAudioPlaybackEnded(Pack))

\* The idle threshold elapses without user input
IdleThresholdElapses ==
  /\ sessionStarted
  /\ ~idleElapsed /\ CheckLeft
  /\ Unpack([Pack EXCEPT !.idleElapsed = TRUE])

\* A tick of the recurring-check timer
TimerTick ==
  /\ recurringCheckInterval
  /\ CheckLeft
  /\ Unpack(timerCallback(Pack))

\* The stream's 'text' event
StreamDelta ==
  \E f \in frames :
    /\ f.pc = "stream" /\ ~f.aborted /\ f.nd < MaxDeltas
    /\ \E d \in Deltas : Unpack(onTextChunk(Take(Pack, f), f, d))

\* finalMessage() resolves
StreamEnd ==
  \E f \in frames :
    /\ f.pc = "stream" /\ ~f.aborted
    /\ \E start \in ToolStarts, n \in 0..MaxTools :
         LET text == IF f.fullText = <<>> THEN NoText ELSE <<"resp", f.req>>
             content == ResponseContent(f.req, text, start, n)
         IN /\ content # <<>>
            /\ n > 0 => ToolResponseLeft
            /\ Unpack(mainAfterStream(requestDone(ResponseReceived(Take(Pack, f), n), f),
                                      [f EXCEPT !.resp = content]))

\* finalMessage() rejects: the request failed, or it was aborted
StreamFails ==
  \E f \in frames :
    /\ f.pc = "stream" /\ ~f.aborted
    /\ Unpack(mainFinally(requestDone(Take(Pack, f), f), f))

StreamAborted ==
  \E f \in frames :
    /\ f.pc = "stream" /\ f.aborted
    /\ Unpack(mainFinally(Take(Pack, f), f))

\* lessonCreator.generate() resolves or rejects
ToolReturn ==
  \E f \in frames :
    /\ f.pc \in {"tool", "rcTool"}
    /\ \E ok \in BOOLEAN : Unpack(afterCreateTutorial(Take(Pack, f), f, ok))

\* getResponse() of a recurring check resolves
RcResponse ==
  \E f \in frames :
    /\ f.pc \in {"rcFirst", "rcFollow"}
    /\ \E text \in {NoText, <<"resp", f.req>>, <<NO_GUIDANCE_NEEDED, f.req>>},
          start \in ToolStarts, n \in 0..MaxTools :
         LET content == ResponseContent(f.req, text, start, n)
         IN /\ content # <<>>
            /\ n > 0 => ToolResponseLeft
            /\ Unpack(rcAfterResponse(requestDone(ResponseReceived(Take(Pack, f), n), f),
                                      f, content))

\* getResponse() of a recurring check rejects
RcFails ==
  \E f \in frames :
    /\ f.pc \in {"rcFirst", "rcFollow"}
    /\ Unpack(rcFinally(requestDone(Take(Pack, f), f), f))

\* The synthesizer websocket's 'open' event: connect() resolves and the call
\* that opened the connection sends its text
TtsOpen ==
  /\ ttsWs = "connecting"
  /\ LET s0 == [Pack EXCEPT !.ttsConnected = TRUE, !.ttsConnecting = FALSE,
                            !.ttsWs = "open",
                            !.out = Append(@, Event("tts", "init", 0, NoText, <<" ">>))]
         idx == {i \in 1..Len(ttsCalls) : ttsCalls[i].mode = "connect"}
     IN IF idx = {} THEN Unpack(s0)
        ELSE LET i == CHOOSE i \in idx : TRUE
                 call == ttsCalls[i]
                 s1 == afterEnsureConnected([s0 EXCEPT !.ttsCalls = RemoveAt(@, i)], call)
             IN IF call.awaited /\ AwaitingSend(s1, call) # {}
                THEN LET f == CHOOSE f \in AwaitingSend(s1, call) : TRUE
                     IN Unpack(resumeAfterSend(Take(s1, f), f))
                ELSE Unpack(s1)

\* The handshake fails: 'error' (connect() rejects) and 'close'
TtsConnectFail ==
  /\ ttsWs = "connecting"
  /\ LET s0 == [Pack EXCEPT !.ttsConnected = FALSE, !.ttsConnecting = FALSE,
                            !.ttsWs = "none"]
         idx == {i \in 1..Len(ttsCalls) : ttsCalls[i].mode = "connect"}
     IN IF idx = {} THEN Unpack(s0)
        ELSE LET i == CHOOSE i \in idx : TRUE
                 call == ttsCalls[i]
                 s1 == [s0 EXCEPT !.ttsCalls = RemoveAt(@, i)]
             IN IF call.awaited /\ AwaitingSend(s1, call) # {}
                THEN LET f == CHOOSE f \in AwaitingSend(s1, call) : TRUE
                     IN Unpack(resumeAfterSendError(Take(s1, f), f))
                ELSE Unpack(s1)

\* The synthesizer closes an open connection: 'close'
TtsClose ==
  /\ ttsWs = "open"
  /\ Unpack([Pack EXCEPT !.ttsConnected = FALSE, !.ttsConnecting = FALSE,
                         !.ttsWs = "none", !.wsTexts = {}])

\* The websocket's 'message' event with audio
TtsAudio ==
  /\ ttsWs = "open"
  /\ \E w \in wsTexts : Unpack(onTTSAudioChunk(Pack, w))

\* Calls polling in _waitForConnection resolve: at a poll that finds the
\* connection open, or at their 10 s timeout. The polls set up in one handler run
\* have the same phase and fire together, in the order in which they were set
\* up. (A timeout matters only to a call that a cycle awaits; a call nobody
\* awaits is kept until a poll finds a connection.)
RECURSIVE resolveWaiters(_, _)
resolveWaiters(s, group) ==
  IF group = {} THEN s
  ELSE LET i == CHOOSE i \in group : \A j \in group : i >= j
           call == s.ttsCalls[i]
           s0 == resolveWaiters(s, group \ {i})
       IN afterEnsureConnected(s0, call)

WaiterResolve ==
  \E i \in 1..Len(ttsCalls) :
    LET call == ttsCalls[i]
        group == {j \in 1..Len(ttsCalls) :
                    /\ ttsCalls[j].mode = "wait" /\ ttsCalls[j].cyc = call.cyc
                    /\ ttsCalls[j].epoch = call.epoch}
        s0 == Pack
        s1 == [resolveWaiters(s0, group) EXCEPT
                 !.ttsCalls = SelectSeq(@, LAMBDA c : ~(c.mode = "wait" /\ c.cyc = call.cyc
                                                        /\ c.epoch = call.epoch))]
    IN /\ call.mode = "wait"
       /\ \A j \in group : i <= j
       /\ ttsConnected \/ call.awaited
       /\ IF call.awaited /\ AwaitingSend(s1, call) # {}
          THEN LET f == CHOOSE f \in AwaitingSend(s1, call) : TRUE
               IN Unpack(resumeAfterSend(Take(s1, f), f))
          ELSE Unpack(s1)

Next ==
  \/ StartSession
  \/ PartialTranscript
  \/ CommittedTranscript
  \/ Frame
  \/ AudioPlaybackEnded
  \/ IdleThresholdElapses
  \/ TimerTick
  \/ StreamDelta
  \/ StreamEnd
  \/ StreamFails
  \/ StreamAborted
  \/ ToolReturn
  \/ RcResponse
  \/ RcFails
  \/ TtsOpen
  \/ TtsConnectFail
  \/ TtsClose
  \/ TtsAudio
  \/ WaiterResolve

Spec == Init /\ [][Next]_vars

\* ------------------------------------------------------------------------
\* The session is stopped while the user is silent
\* ------------------------------------------------------------------------
\* ElevenLabsTTS.disconnect(): closes the websocket and clears the flags; the
\* listeners stay registered
ttsDisconnect(s) ==
  [s EXCEPT !.ttsWs = "none", !.ttsConnected = FALSE, !.ttsConnecting = FALSE,
            !.wsTexts = {}]

\* destroy(): the timer is cleared, both provider connections are closed and
\* the socket reference is dropped; the request in flight and the flags of the
\* running cycle are left alone
destroy(s) ==
  [ttsDisconnect(sttDisconnect(s)) EXCEPT !.recurringCheckInterval = FALSE,
                                          !.socket = FALSE]

\* A websocket closed during its handshake emits 'error': the connect() that
\* opened it rejects, and a cycle awaiting that call resumes in its catch
connectRejected(s) ==
  LET idx == {i \in 1..Len(s.ttsCalls) : s.ttsCalls[i].mode = "connect"}
  IN IF idx = {} THEN s
     ELSE LET i == CHOOSE i \in idx : TRUE
              call == s.ttsCalls[i]
              s1 == [s EXCEPT !.ttsCalls = RemoveAt(@, i)]
          IN IF call.awaited /\ AwaitingSend(s1, call) # {}
             THEN LET f == CHOOSE f \in AwaitingSend(s1, call) : TRUE
                  IN resumeAfterSendError(Take(s1, f), f)
             ELSE s1

\* socket 'stop_session' or 'disconnect': module.destroy()
Destroy ==
  /\ sessionStarted
  /\ socket
  /\ Unpack(IF ttsWs = "connecting" THEN connectRejected(destroy(Pack))
            ELSE destroy(Pack))

StopNext ==
  \/ StartSession
  \/ Destroy
  \/ Frame
  \/ AudioPlaybackEnded
  \/ TimerTick
  \/ StreamDelta
  \/ StreamEnd
  \/ StreamFails
  \/ ToolReturn
  \/ RcResponse
  \/ RcFails
  \/ TtsOpen
  \/ TtsConnectFail
  \/ TtsClose
  \/ TtsAudio
  \/ WaiterResolve

StopSpec == Init /\ [][StopNext]_vars

\* ------------------------------------------------------------------------
\* Sessions started, stopped and started again on one socket, and the
\* websocket of the transcript source
\* ------------------------------------------------------------------------
\* socket 'start_session' with any tool type, at any time: the listeners of an
\* instance stay on the socket when stop_session destroys it
SessionStart ==
  /\ sttSockets < MaxSttSockets
  /\ \E tt \in ConfiguredTools \cup {"other"} : Unpack(startSessionEvent(Pack, tt))

\* socket 'stop_session': module.destroy()
SessionStop ==
  /\ socket
  /\ Unpack(IF ttsWs = "connecting" THEN connectRejected(destroy(Pack))
            ELSE destroy(Pack))

\* The 'open' event of the websocket this.ws refers to
SttOpen ==
  /\ sttWs = "connecting"
  /\ Unpack([Pack EXCEPT !.sttWs = "open", !.sttConnected = TRUE])

\* The 'close' event of the websocket this.ws refers to: the provider ends the
\* session, or the handshake fails
SttClose ==
  /\ sttWs # "none"
  /\ Unpack(sttOnClose([Pack EXCEPT !.sttWs = "none"]))

\* The 'open' event of a websocket this.ws does not refer to any more
SttStaleOpen ==
  /\ sttStale.connecting > 0
  /\ Unpack([Pack EXCEPT !.sttStale.connecting = @ - 1, !.sttStale.open = @ + 1,
                         !.sttConnected = TRUE])

\* The 'close' event of such a websocket
SttStaleClose ==
  \E k \in {"closing", "connecting", "open"} :
    /\ sttStale[k] > 0
    /\ Unpack(sttOnClose([Pack EXCEPT !.sttStale[k] = @ - 1]))

\* A reconnect timer fires: connect()
SttTimerFires ==
  /\ sttSockets < MaxSttSockets
  /\ \/ sttTimerRef /\ Unpack(sttConnect([Pack EXCEPT !.sttTimerRef = FALSE]))
     \/ sttLostTimers > 0 /\ Unpack(sttConnect([Pack EXCEPT !.sttLostTimers = @ - 1]))

\* An open websocket of the transcript source delivers a transcript
SttLive == sttWs = "open" \/ sttStale.open > 0
SttPartialTranscript == SttLive /\ PartialTranscript
SttCommittedTranscript == SttLive /\ CommittedTranscript

\* socket 'frame', also before the first start_session
SessionFrame ==
  /\ latestFrame < MaxVideoFrames
  /\ Unpack(handleFrame(Pack))

SessionNext ==
  \/ SessionStart
  \/ SessionStop
  \/ SessionFrame
  \/ SttOpen
  \/ SttClose
  \/ SttStaleOpen
  \/ SttStaleClose
  \/ SttTimerFires
  \/ SttPartialTranscript
  \/ SttCommittedTranscript
  \/ StreamEnd
  \/ StreamFails
  \/ StreamAborted

SessionSpec == Init /\ [][SessionNext]_vars

\* ------------------------------------------------------------------------
\* The server together with the client's audio player
\* ------------------------------------------------------------------------
\* The client's start button: the playback context is made, isSessionActive is
\* set and start_session is emitted
ClientStartSession ==
  /\ ~sessionStarted
  /\ Unpack(startSession([Pack EXCEPT !.toolType = "blender",
                                      !.client.isSessionActive = TRUE]))

\* The websocket's 'message' event with audio
ClientTtsAudio == client.sent < MaxAudioChunks /\ TtsAudio

\* finalMessage() resolves with a response that is text only
ClientStreamEnd ==
  \E f \in frames :
    /\ f.pc = "stream" /\ ~f.aborted /\ f.fullText # <<>>
    /\ Unpack(mainAfterStream(requestDone(Take(Pack, f), f),
                              [f EXCEPT !.resp = ResponseContent(f.req, <<"resp", f.req>>, 1, 0)]))

\* The client receives the event that was sent first
ClientReceives ==
  /\ client.inbox # <<>>
  /\ LET m == Head(client.inbox)
         c == [client EXCEPT !.inbox = Tail(@)]
     IN Unpack([Pack EXCEPT !.client = IF m.type = "interrupt" THEN clientInterrupt(c)
                                       ELSE clientAgentAudio(c, m.id)])

\* The 'ended' event of a buffer source
ClientSourceEnded ==
  \E src \in client.sources : Unpack([Pack EXCEPT !.client = clientSourceEnded(client, src)])

\* socket 'audio_playback_ended' arrives at the server
ClientPlaybackEnded ==
  /\ client.outbox > 0
  /\ Unpack(onAudioPlaybackEnded([Pack EXCEPT !.client.outbox = @ - 1]))

ClientNext ==
  \/ ClientStartSession
  \/ CommittedTranscript
  \/ StreamDelta
  \/ ClientStreamEnd
  \/ StreamAborted
  \/ TtsOpen
  \/ ClientTtsAudio
  \/ WaiterResolve
  \/ ClientReceives
  \/ ClientSourceEnded
  \/ ClientPlaybackEnded

ClientSpec == Init /\ [][ClientNext]_vars

\* ------------------------------------------------------------------------
\* Screen frames arriving throughout a session
\* ------------------------------------------------------------------------
\* socket 'frame', at any time
FrameArrives ==
  /\ frameCount < MaxFrameEvents
  /\ Unpack(handleFrame(Pack))

FrameNext ==
  \/ StartSession
  \/ FrameArrives
  \/ CommittedTranscript
  \/ IdleThresholdElapses
  \/ TimerTick
  \/ StreamFails
  \/ StreamAborted
  \/ RcFails

FrameSpec == Init /\ [][FrameNext]_vars

\* ------------------------------------------------------------------------
\* A long session: the history holds many image-bearing turns
\* ------------------------------------------------------------------------
\* The session is idle after its greeting and a number of answered utterances.
\* An utterance that came with a screen frame left an image-bearing user turn
\* (kind "image"); one that came before the first frame, or whose image an
\* earlier pruning removed, left a string (kind "plain").
HistoryKinds ==
  {k \in UNION {[1..n -> {"image", "plain"}] : n \in 0..(MaxImageTurns + MaxPlainTurns)} :
     /\ Cardinality({i \in DOMAIN k : k[i] = "image"}) <= MaxImageTurns
     /\ Cardinality({i \in DOMAIN k : k[i] = "plain"}) <= MaxPlainTurns}

ImagesBefore(kinds, i) == Cardinality({j \in 1..i : kinds[j] = "image"})

RECURSIVE PastTurns(_, _)
PastTurns(kinds, i) ==
  IF i > Len(kinds) THEN <<>>
  ELSE <<Turn("user", buildUserContent(IF kinds[i] = "image" THEN ImagesBefore(kinds, i) ELSE 0,
                                       <<"past", i>>)),
         Turn("assistant", Str(<<"reply", i>>))>> \o PastTurns(kinds, i + 1)

PastConversation(kinds) ==
  <<Turn("user", Str(SESSION_START)), Turn("assistant", Str(<<"reply", 0>>))>>
    \o PastTurns(kinds, 1)

HistoryInit ==
  \E kinds \in HistoryKinds :
    /\ currentConversation = PastConversation(kinds)
    /\ latestFrame = ImagesBefore(kinds, Len(kinds))
    /\ nextCyc = Len(kinds) + 1
    /\ sessionStarted = TRUE
    /\ recurringCheckInterval = TRUE
    /\ idleElapsed = TRUE
    /\ isProcessing = FALSE
    /\ interrupted = FALSE
    /\ hasPendingUserMessage = FALSE
    /\ isRecurringCheckRunning = FALSE
    /\ recurringCheckCancelled = FALSE
    /\ isAgentCurrentlySpeaking = FALSE
    /\ sentenceBuffer = <<>>
    /\ currentTutorial = 0
    /\ currentStepIndex = 0
    /\ frames = {}
    /\ currentStream = 0
    /\ requests = {}
    /\ ttsWs = "none"
    /\ ttsConnected = FALSE
    /\ ttsConnecting = FALSE
    /\ ttsCalls = <<>>
    /\ wsTexts = {}
    /\ out = <<>>
    /\ nCommitted = 0
    /\ nPartials = 0
    /\ nChecks = 0
    /\ nUserCycles = 0
    /\ nToolResponses = 0
    /\ chunkSeq = 0
    /\ toolLog = <<>>
  /\ socket = TRUE
  /\ toolType = "blender"
  /\ sttWs = "open"
  /\ sttConnected = TRUE
  /\ sttShouldReconnect = TRUE
  /\ sttTimerRef = FALSE
  /\ sttLostTimers = 0
  /\ sttStale = NoStale
  /\ sttSockets = 1
  /\ client = NoClient
  /\ frameCount = latestFrame

\* stt 'committed_transcript' with a non-blank text, at any time
HistoryCommittedTranscript ==
  /\ nCommitted < MaxCommitted
  /\ Unpack(onCommittedTranscript(Pack, FALSE))

\* A tick of the recurring-check timer
HistoryTimerTick ==
  /\ nChecks < MaxChecks
  /\ Unpack(timerCallback(Pack))

HistoryNext ==
  \/ HistoryCommittedTranscript
  \/ HistoryTimerTick
  \/ StreamAborted
  \/ RcFails

HistorySpec == HistoryInit /\ [][HistoryNext]_vars

\* ------------------------------------------------------------------------
\* A recurring check whose every response asks for tools
\* ------------------------------------------------------------------------
\* The session is idle after its greeting and one answered utterance that came
\* with a screen frame; the user stays silent and the client plays no audio.
RoundsInit ==
  /\ currentConversation = PastConversation(<<"image">>)
  /\ latestFrame = 1
  /\ nextCyc = 2
  /\ sessionStarted = TRUE
  /\ recurringCheckInterval = TRUE
  /\ idleElapsed = TRUE
  /\ isProcessing = FALSE
  /\ interrupted = FALSE
  /\ hasPendingUserMessage = FALSE
  /\ isRecurringCheckRunning = FALSE
  /\ recurringCheckCancelled = FALSE
  /\ isAgentCurrentlySpeaking = FALSE
  /\ sentenceBuffer = <<>>
  /\ currentTutorial = 0
  /\ currentStepIndex = 0
  /\ frames = {}
  /\ currentStream = 0
  /\ requests = {}
  /\ ttsWs = "none"
  /\ ttsConnected = FALSE
  /\ ttsConnecting = FALSE
  /\ ttsCalls = <<>>
  /\ wsTexts = {}
  /\ out = <<>>
  /\ nCommitted = 0
  /\ nPartials = 0
  /\ nChecks = 0
  /\ nUserCycles = 0
  /\ nToolResponses = 0
  /\ chunkSeq = 0
  /\ toolLog = <<>>
  /\ socket = TRUE
  /\ toolType = "blender"
  /\ sttWs = "open"
  /\ sttConnected = TRUE
  /\ sttShouldReconnect = TRUE
  /\ sttTimerRef = FALSE
  /\ sttLostTimers = 0
  /\ sttStale = NoStale
  /\ sttSockets = 1
  /\ client = NoClient
  /\ frameCount = latestFrame

\* getResponse() of a recurring check resolves; any response may hold a
\* tool_use block, however many the check has received
RoundsRcResponse ==
  \E f \in frames :
    /\ f.pc \in {"rcFirst", "rcFollow"}
    /\ \E text \in {NoText, <<"resp", f.req>>, <<NO_GUIDANCE_NEEDED, f.req>>},
          start \in ToolStarts, n \in 0..1 :
         LET content == ResponseContent(f.req, text, start, n)
         IN /\ content # <<>>
            /\ Unpack(rcAfterResponse(requestDone(ResponseReceived(Take(Pack, f), n), f),
                                      f, content))

RoundsNext ==
  \/ HistoryTimerTick
  \/ RoundsRcResponse
  \/ RcFails
  \/ ToolReturn
  \/ TtsOpen
  \/ TtsConnectFail
  \/ TtsClose

\* Every provider call, tool call and websocket handshake comes to an end
RoundsSpec ==
  /\ RoundsInit /\ [][RoundsNext]_vars
  /\ WF_vars(RoundsRcResponse)
  /\ WF_vars(ToolReturn)
  /\ WF_vars(TtsOpen \/ TtsConnectFail)

\* ------------------------------------------------------------------------
\* A greeting cycle whose every response asks for tools
\* ------------------------------------------------------------------------
\* finalMessage() resolves; any response may hold a tool_use block, however
\* many the cycle has received
MainRoundsStreamEnd ==
  \E f \in frames :
    /\ f.pc = "stream" /\ ~f.aborted
    /\ \E start \in ToolStarts, n \in 0..1 :
         LET text == IF f.fullText = <<>> THEN NoText ELSE <<"resp", f.req>>
             content == ResponseContent(f.req, text, start, n)
         IN /\ content # <<>>
            /\ n > 0 => nToolResponses < MaxMainRounds
            /\ Unpack(mainAfterStream(requestDone(ResponseReceived(Take(Pack, f), n), f),
                                      [f EXCEPT !.resp = content]))

MainRoundsNext ==
  \/ StartSession
  \/ Frame
  \/ MainRoundsStreamEnd
  \/ StreamFails
  \/ ToolReturn
  \/ HistoryTimerTick
  \/ RoundsRcResponse
  \/ RcFails
  \/ TtsOpen
  \/ TtsConnectFail
  \/ TtsClose

MainRoundsSpec == Init /\ [][MainRoundsNext]_vars

\* ------------------------------------------------------------------------
\* The greeting stream, with every short text delta
\* ------------------------------------------------------------------------
ClauseChars == {"a", ",", ".", " "}
ClauseDeltas == UNION {[1..n -> ClauseChars] : n \in 1..MaxChunkLen}

\* The stream's 'text' event
ClauseStreamDelta ==
  \E f \in frames :
    /\ f.pc = "stream" /\ ~f.aborted /\ f.nd < MaxDeltas
    /\ \E d \in ClauseDeltas : Unpack(onTextChunk(Take(Pack, f), f, d))

ClauseNext ==
  \/ StartSession
  \/ ClauseStreamDelta
  \/ StreamEnd
  \/ TtsOpen
  \/ TtsConnectFail

ClauseSpec == Init /\ [][ClauseNext]_vars

\* ------------------------------------------------------------------------
\* Properties
\* ------------------------------------------------------------------------
\* Top-level roles alternate
Alternates(m) == \A i \in 1..(Len(m) - 1) : m[i].role # m[i + 1].role
\* Every tool_result turn comes right after an assistant turn whose tool_use
\* blocks it answers, id by id
ToolResultsPaired(m) ==
  \A i \in 1..Len(m) :
    HasBlock(m[i].content, "tool_result") =>
      /\ i > 1
      /\ m[i - 1].role = "assistant"
      /\ IdsOf(m[i - 1].content, "tool_use") = IdsOf(m[i].content, "tool_result")

\* C1: the message list of every generator request alternates user/assistant
\* and every tool_result turn follows the assistant turn with the matching
\* tool_use blocks.
C1_RequestAlternates ==
  \A r \in requests : Alternates(r.messages) /\ ToolResultsPaired(r.messages)

\* The user turn of the k-th committed transcript is in the message list m
HasUserText(m, k) ==
  \E i \in 1..Len(m) :
    /\ m[i].role = "user"
    /\ \/ m[i].content = Str(<<"user", k>>)
       \/ \E j \in 1..Len(BlocksOf(m[i].content)) :
            BlocksOf(m[i].content)[j] = TextBlock(<<"user", k>>)

\* C2: a committed transcript that arrives while a cycle is active issues no
\* generator request and sets hasPendingUserMessage; while the flag is set the
\* only step that issues a request is its release, which clears the flag and
\* starts exactly one fresh main cycle after the active cycle has unwound (no
\* other invocation and no other request is left); the flag is cleared in no
\* other way.
C2_Step ==
  /\ (nCommitted' # nCommitted /\ isProcessing) =>
        (nextCyc' = nextCyc /\ hasPendingUserMessage')
  /\ (hasPendingUserMessage /\ nextCyc' # nextCyc) =>
        /\ ~hasPendingUserMessage'
        /\ nextCyc' = nextCyc + 1
        /\ \E f \in frames' :
             /\ frames' = {f}
             /\ f.kind = "main" /\ f.cyc = nextCyc' /\ ~f.cont /\ f.pc = "stream"
        /\ \A r \in requests' : r.cyc = nextCyc' /\ r.kind = "stream"
  /\ (hasPendingUserMessage /\ ~hasPendingUserMessage') => nextCyc' = nextCyc + 1
C2_QueuedTranscriptsStartOneCycle == [][C2_Step]_vars

\* Two transcripts were queued during the greeting cycle and released together:
\* the one fresh cycle carries both
C2_Witness ==
  /\ nCommitted = 2 /\ ~hasPendingUserMessage
  /\ \E f \in frames, r \in requests :
       /\ f.root = "session" /\ f.cyc = 2 /\ ~f.cont /\ f.pc = "stream"
       /\ r.cyc = f.cyc /\ HasUserText(r.messages, 1) /\ HasUserText(r.messages, 2)

\* A transcript is queued and every invocation that could release it waits for
\* a promise that never settles
Lost == hasPendingUserMessage /\ frames # {} /\ \A f \in frames : f.pc = "hung"
\* Such a state is final for the utterance: no request is issued any more
LostIsFinal == [][Lost => (Lost' /\ nextCyc' = nextCyc)]_vars

\* C3: a committed transcript is never lost: while one is queued, an invocation
\* is left that will release it and start the request carrying it.
C3_QueuedUtteranceNotLost == ~Lost

\* Events of the latest handler run
OutEvents == {out[i] : i \in 1..Len(out)}
IsTtsText(e) == e.to = "tts" /\ e.type \in {"chunk", "text"}

\* C4: no agent_audio event carries audio synthesized from text of a cycle that
\* handleInterruption cut while the agent was speaking.
C4_NoAudioOfInterruptedCycle ==
  \A e \in OutEvents : e.type = "agent_audio" => e.cut # "spk"

\* C7: the chunks of an uninterrupted cycle reach the synthesizer in text
\* order, the remainder of the final flush last: when a chunk, the flush or the
\* end-of-stream message is sent, no earlier chunk of the cycle is still waiting
\* to be sent, and the chunks sent in one handler run are sent in text order.
C7_ChunksInTextOrder ==
  /\ \A e \in OutEvents :
       (e.to = "tts" /\ e.type = "chunk" /\ e.cut = "") =>
         \A j \in 1..Len(ttsCalls) : ttsCalls[j].cyc = e.cyc => ttsCalls[j].seq > e.seq
  /\ \A e \in OutEvents :
       (e.to = "tts" /\ e.type \in {"flush", "eos"}) =>
         \A j \in 1..Len(ttsCalls) : ttsCalls[j].cyc # e.cyc
  /\ \A i, j \in 1..Len(out) :
       (i < j /\ IsTtsText(out[i]) /\ IsTtsText(out[j]) /\ out[i].cyc = out[j].cyc) =>
         out[i].seq < out[j].seq

\* C9: no state exists in which the interrupt flag is set for a cycle that is
\* still unwinding while that cycle's generator request is still live or the
\* synthesizer connection is still open.
C9_CancellationIsAtomic ==
  \A f \in frames :
    (interrupted /\ f.cut # "" /\ f.pc # "hung") =>
      /\ \A r \in requests : r.cyc # f.req
      /\ ttsWs = "none"

\* C10: no text that a cycle handed to the synthesizer client before it was
\* interrupted is sent to the synthesizer afterwards.
C10_NoTextOfInterruptedCycle ==
  \A e \in OutEvents : IsTtsText(e) => e.cut = ""

\* sfx is everything a check that ends now has made: its prompt, one assistant
\* turn per response it received, one tool_result turn per assistant turn with
\* tool_use blocks
AllProvisionalTurns(sfx, f) ==
  /\ Len(sfx) >= 2
  /\ sfx[1] = Turn("user", f.userContent)
  /\ Alternates(sfx) /\ ToolResultsPaired(sfx)
  /\ Cardinality({i \in 1..Len(sfx) : sfx[i].role = "assistant"}) = f.req - f.cyc + 1
  /\ \A i \in 1..Len(sfx) :
       (sfx[i].role = "assistant" /\ HasBlock(sfx[i].content, "tool_use")) =>
         (i < Len(sfx) /\ HasBlock(sfx[i + 1].content, "tool_result"))
  /\ \A i \in 1..Len(sfx) :
       \A j \in 1..Len(BlocksOf(sfx[i].content)) :
         BlocksOf(sfx[i].content)[j].text[1] # NO_GUIDANCE_NEEDED

\* C5: while a recurring check runs it leaves currentConversation alone (only
\* a committed transcript appends, and it does not end the check); in the step
\* in which the check ends it appends either nothing or, not being cancelled,
\* all of its provisional turns at once.
C5_Step ==
  \A f \in frames :
    f.kind = "rc" =>
      LET ended == \A g \in frames' : ~(g.kind = "rc" /\ g.cyc = f.cyc)
          n == Len(currentConversation)
      IN IF nCommitted' # nCommitted THEN ~ended
         ELSE IF ~ended THEN currentConversation' = currentConversation
         ELSE \/ Len(currentConversation') = n
              \/ /\ ~recurringCheckCancelled
                 /\ Len(currentConversation') > n
                 /\ SubSeq(currentConversation', 1, n) = currentConversation
                 /\ AllProvisionalTurns(SubSeq(currentConversation', n + 1,
                                               Len(currentConversation')), f)
C6_Step ==
  /\ \A g \in frames' :
       (g.kind = "main" /\ g.cont /\ g.cyc = nextCyc' /\ nextCyc' # nextCyc) =>
         LET conv == currentConversation'
             n == Len(conv)
         IN /\ n >= 2
            /\ conv[n - 1].role = "assistant"
            /\ Len(IdsOf(conv[n - 1].content, "tool_use")) >= 1
            /\ conv[n].role = "user"
            /\ Len(BlocksOf(conv[n].content)) = Len(IdsOf(conv[n].content, "tool_result"))
            /\ IdsOf(conv[n].content, "tool_result") = IdsOf(conv[n - 1].content, "tool_use")
            /\ toolLog' = IdsOf(conv[n - 1].content, "tool_use")
            /\ Len(conv) - Len(currentConversation) \in {1, 2}
            /\ \E r \in requests' : r.cyc = g.cyc /\ r.messages = conv
  /\ \A f \in frames :
       (/\ f.kind = "main" /\ f.pc = "tool" /\ ~interrupted
        /\ \A g \in frames' : ~(g.cyc = f.cyc /\ g.pc = "tool")) =>
         \E g \in frames' : g.kind = "main" /\ g.cont /\ g.cyc = nextCyc + 1
C6_ToolBatchAnsweredInOneTurn == [][C6_Step]_vars

\* The follow-up request of a response with two tool_use blocks is streaming
C6_Witness ==
  /\ Len(toolLog) = 2
  /\ \E g \in frames : g.kind = "main" /\ g.cont /\ g.pc = "stream" /\ g.cyc = nextCyc
  /\ Len(currentConversation) >= 2
  /\ Len(IdsOf(currentConversation[Len(currentConversation)].content, "tool_result")) = 2

\* C8: at most one cycle is active (one chain of suspended invocations, main
\* or recurring check) and at most one generator request is outstanding, which
\* is the request of that cycle.
C8_OneCycleOneRequest ==
  /\ Cardinality(frames) <= 1
  /\ Cardinality(requests) <= 1
  /\ \A r \in requests : \E f \in frames : f.req = r.cyc
  /\ frames # {} => isProcessing

\* A recurring check with its request outstanding while a transcript is queued
C8_Witness ==
  /\ hasPendingUserMessage
  /\ \E f \in frames, r \in requests : f.kind = "rc" /\ r.cyc = f.req

\* Calls that opened a synthesizer websocket and wait for its 'open' event
ConnectCalls == {i \in 1..Len(ttsCalls) : ttsCalls[i].mode = "connect"}
\* ws, connected and connecting describe one websocket: open, connecting or none
OneTtsSocket ==
  /\ ttsWs \in {"none", "connecting", "open"}
  /\ ttsConnected <=> ttsWs = "open"
  /\ ttsConnecting <=> ttsWs = "connecting"
  /\ Cardinality(ConnectCalls) <= 1
  /\ ConnectCalls # {} => ttsWs = "connecting"
Interrupts == \E i \in 1..Len(out) : out[i].type = "interrupt"

\* C11: at most one synthesizer websocket is open or connecting; a handler run
\* in which handleInterruption ran leaves none (ws null, connected and
\* connecting false, no call left that waits for the old websocket's events);
\* text is sent only on an open websocket, and a websocket is open only after
\* it has been connecting, so text sent after an interrupt goes to a new one.
C11_Step ==
  /\ OneTtsSocket'
  /\ Interrupts' => (ttsWs' = "none" /\ ~ttsConnected' /\ ~ttsConnecting' /\ ConnectCalls' = {}
                     /\ wsTexts' = {})
  /\ (\E i \in 1..Len(out') : IsTtsText(out'[i])) => ttsWs' = "open"
  /\ (ttsWs' = "open" /\ ttsWs # "open") => ttsWs = "connecting"
  /\ (ttsWs' = "connecting" /\ ttsWs # "connecting") => ttsWs = "none" \/ Interrupts'
C11_OneSynthesizerSocket == [][C11_Step]_vars

\* An interrupt hit a websocket that was connecting (a call of the interrupted
\* cycle still polls for a connection) and a later cycle has opened a new one
\* and sent its text on it
C11_Witness ==
  /\ ttsWs = "open"
  /\ \E i \in 1..Len(ttsCalls) : ttsCalls[i].mode = "wait" /\ ttsCalls[i].cut # ""
  /\ \E w \in wsTexts : w.cyc = nextCyc /\ w.cut = ""

\* The blocks of a turn's content, a string counting as one text block
AsBlocks(content) == IF content.kind = "str" THEN <<TextBlock(content.text)>> ELSE content.blocks
ImageCount(conv) == Cardinality(ImageIndices(conv))
\* The n oldest image-bearing turns of conv
OldestImageTurns(conv, n) ==
  {i \in ImageIndices(conv) : Cardinality({j \in ImageIndices(conv) : j < i}) < n}

PruneContract(before, after) ==
  LET c == ImageCount(before)
      oldest == OldestImageTurns(before, c - MAX_CONTEXT_IMAGES)
  IN /\ Len(after) = Len(before)
     /\ \A i \in 1..Len(before) : after[i].role = before[i].role
     /\ c <= MAX_CONTEXT_IMAGES => after = before
     /\ c > MAX_CONTEXT_IMAGES =>
          /\ Cardinality(oldest) = c - MAX_CONTEXT_IMAGES
          /\ \A i \in 1..Len(before) :
               IF i \in oldest
               THEN /\ ~HasBlock(after[i].content, "image")
                    /\ AsBlocks(after[i].content)
                         = SelectSeq(before[i].content.blocks, IsNotImageBlock)
               ELSE after[i] = before[i]

\* C12: pruneOldImages changes nothing when the conversation holds at most
\* MAX_CONTEXT_IMAGES image-bearing turns; otherwise it removes the image blocks
\* of exactly the oldest c - MAX_CONTEXT_IMAGES image-bearing turns, keeps their
\* other blocks (a single text block as a string) and leaves every other turn,
\* and the number, order and roles of the turns, as they were.
C12_PruneStripsOldest ==
  PruneContract(currentConversation, pruneOldImages(currentConversation))

\* A cycle has pruned its history: ten image-bearing turns are left and more
\* user turns are strings than the history had before
C12_Witness ==
  /\ \E r \in requests : r.kind = "stream" /\ r.messages = currentConversation
  /\ ImageCount(currentConversation) = MAX_CONTEXT_IMAGES
  /\ Cardinality({i \in 1..Len(currentConversation) :
                    /\ currentConversation[i].role = "user"
                    /\ currentConversation[i].content.kind = "str"
                    /\ currentConversation[i].content.text[1] = "past"}) > MaxPlainTurns

\* C13: no generator request carries more than MAX_CONTEXT_IMAGES image-bearing
\* turns.
C13_RequestsCarryAtMostNImages ==
  \A r \in requests : ImageCount(r.messages) <= MAX_CONTEXT_IMAGES

\* The assistant turn i holds tool_use blocks
HoldsToolUse(conv, i) == conv[i].role = "assistant" /\ HasBlock(conv[i].content, "tool_use")
\* ... and the next turn is a user turn with the tool_result blocks of these ids
Answered(conv, i) ==
  /\ i < Len(conv)
  /\ conv[i + 1].role = "user"
  /\ IdsOf(conv[i + 1].content, "tool_result") = IdsOf(conv[i].content, "tool_use")
\* The turn's own text, or the placeholder when it has no non-blank text
OwnTextOrPlaceholder(msg) ==
  LET texts == SelectSeq(BlocksOf(msg.content), IsTextBlock)
  IN IF \E k \in 1..Len(texts) : ~IsBlankText(texts[k].text)
     THEN IF Len(texts) = 1 THEN Str(texts[1].text) ELSE Arr(texts)
     ELSE Str(INTERRUPTED_PLACEHOLDER)

SanitizeContract(before, after) ==
  /\ Len(after) = Len(before)
  /\ \A i \in 1..Len(after) : HoldsToolUse(after, i) => Answered(after, i)
  /\ \A i \in 1..Len(before) :
       IF HoldsToolUse(before, i) /\ ~Answered(before, i)
       THEN after[i] = Turn("assistant", OwnTextOrPlaceholder(before[i]))
       ELSE after[i] = before[i]

\* C14: after sanitizeConversation every assistant turn that still holds
\* tool_use blocks is followed at once by the user turn with the matching
\* tool_result blocks; a turn that held unanswered tool_use blocks has become
\* its own text, or the placeholder when it has no non-blank text; nothing else
\* has changed.
C14_SanitizeRepairsOrphans ==
  SanitizeContract(currentConversation, sanitizeConversation(currentConversation))

\* The history holds an assistant turn with text and unanswered tool_use blocks
\* (its cycle was interrupted while a tool ran) and the request of the next
\* cycle carries the turn as its text
C14_Witness ==
  \E r \in requests : \E i \in 1..Len(r.messages) :
    /\ r.kind = "stream"
    /\ r.messages = currentConversation
    /\ r.messages[i] = Turn("assistant", Str(<<"resp", 1>>))
    /\ i < Len(r.messages) /\ r.messages[i + 1].role = "user"
    /\ toolLog # <<>>

\* No cycle is active, the agent is not speaking, the idle threshold has
\* elapsed and a frame is there
QuietAndIdle ==
  /\ frames = {} /\ requests = {}
  /\ ~isRecurringCheckRunning
  /\ ~isAgentCurrentlySpeaking
  /\ idleElapsed
  /\ latestFrame # 0

\* C15: isRecurringCheckRunning becomes true only in a state where no main
\* cycle and no recurring check is active, the agent is not speaking, the idle
\* threshold has elapsed and a frame is available; in every other state the
\* timer callback changes nothing.
C15_Step ==
  /\ (isRecurringCheckRunning' /\ ~isRecurringCheckRunning) => QuietAndIdle
  /\ ~QuietAndIdle => timerCallback(Pack) = Pack
  /\ ~QuietAndIdle' => timerCallback(Pack)' = Pack'
C15_CheckStartsOnlyWhenIdle == [][C15_Step]_vars

\* A check has just started: its first request is outstanding
C15_Witness ==
  /\ isRecurringCheckRunning /\ ~recurringCheckCancelled
  /\ \E f \in frames : f.kind = "rc" /\ f.pc = "rcFirst" /\ f.root = "timer"
  /\ \E r \in requests : r.kind = "plain"

\* C16: the interrupt flag is false at the start of every cycle and stays
\* false until handleInterruption runs during that cycle: while a cycle that
\* no interrupt has hit is active, the flag is false.
C16_FlagFalseInUncutCycle ==
  \A f \in frames : f.cut = "" => ~interrupted

KnownTools == {"Create_Tutorial", "Progressed_Step", "Suggested_HotKey"}
\* The follow-up request of a main cycle is issued in this step
FollowUpIssued ==
  /\ nextCyc' = nextCyc + 1
  /\ \E g \in frames' : g.kind = "main" /\ g.cont /\ g.pc = "stream" /\ g.cyc = nextCyc'
  /\ \E r \in requests' : r.cyc = nextCyc' /\ r.messages = currentConversation'

\* C17: a tool_use block with an unknown name is answered by an error-shaped
\* tool_result in the tool-result turn of its batch; a main cycle that is not
\* interrupted and receives a batch with an unknown name, none of whose tools
\* awaits I/O, appends the assistant turn and the complete tool-result turn and
\* issues the follow-up request in that same handler run.
C17_Step ==
  LET conv == currentConversation'
      n == Len(conv)
      new == SubSeq(conv, Len(currentConversation) + 1, n)
      IsBatchTurn(m) == m.role = "assistant" /\ HasBlock(m.content, "tool_use")
      Names(m) == {ToolUses(m.content.blocks)[j].name : j \in 1..Len(ToolUses(m.content.blocks))}
  IN /\ FollowUpIssued =>
          /\ n >= 2 /\ IsBatchTurn(conv[n - 1])
          /\ LET uses == ToolUses(conv[n - 1].content.blocks)
                 results == BlocksOf(conv[n].content)
             IN /\ Len(results) = Len(uses)
                /\ \A j \in 1..Len(uses) :
                     uses[j].name \notin KnownTools =>
                       results[j] = ToolResultBlock(uses[j].id, "error")
     /\ (/\ \E f \in frames : f.kind = "main"
         /\ ~interrupted
         /\ Len(new) >= 1 /\ IsBatchTurn(new[1])
         /\ "Create_Tutorial" \notin Names(new[1])
         /\ Names(new[1]) \ KnownTools # {})
        => (Len(new) = 2 /\ FollowUpIssued)
C17_UnknownToolAnsweredWithError == [][C17_Step]_vars

\* The follow-up request of a batch that began with an unknown tool is streaming
C17_Witness ==
  /\ \E g \in frames : g.kind = "main" /\ g.cont /\ g.pc = "stream" /\ g.cyc = nextCyc
  /\ Len(currentConversation) >= 2
  /\ LET last == currentConversation[Len(currentConversation)]
     IN /\ last.role = "user"
        /\ Len(BlocksOf(last.content)) = 2
        /\ BlocksOf(last.content)[1].type = "tool_result"
        /\ BlocksOf(last.content)[1].text = <<"error", 0>>
  /\ \E r \in requests : r.messages = currentConversation

\* ------------------------------------------------------------------------
\* C18
\* ------------------------------------------------------------------------
\* C18: a failure raised by one tool invocation does not abort the cycle. A
\* main cycle that is not interrupted and appends the assistant turn of a batch
\* none of whose tools awaits I/O appends the complete tool-result turn (one
\* tool_result per tool_use block, in block order) and issues the follow-up
\* request in that same handler run; a main cycle whose awaited tool call
\* returns without an interruption, and whose batch awaits no further call,
\* does the same.
C18_Step ==
  LET conv == currentConversation'
      n == Len(conv)
      new == SubSeq(conv, Len(currentConversation) + 1, n)
      IsBatchTurn(m) == m.role = "assistant" /\ HasBlock(m.content, "tool_use")
      Names(m) == {ToolUses(m.content.blocks)[j].name : j \in 1..Len(ToolUses(m.content.blocks))}
      BatchAnswered(k) == /\ k >= 2 /\ IsBatchTurn(conv[k - 1])
                     /\ conv[k].role = "user"
                     /\ IdsOf(conv[k].content, "tool_result") = IdsOf(conv[k - 1].content, "tool_use")
  IN /\ (/\ \E f \in frames : f.kind = "main"
         /\ ~interrupted
         /\ Len(new) >= 1 /\ IsBatchTurn(new[1])
         /\ "Create_Tutorial" \notin Names(new[1]))
        => (Len(new) = 2 /\ BatchAnswered(n) /\ FollowUpIssued)
     /\ \A f \in frames :
          (/\ f.kind = "main" /\ f.pc = "tool" /\ ~interrupted
           /\ \A g \in frames' : ~(g.cyc = f.cyc /\ g.pc = "tool"))
          => (BatchAnswered(n) /\ FollowUpIssued)
C18_ToolFailureNeverAbortsCycle == [][C18_Step]_vars

\* ------------------------------------------------------------------------
\* C20
\* ------------------------------------------------------------------------
\* C20: destroy interrupts the cycle it finds: when it returns, no generator
\* request is live and no synthesizer websocket is open or connecting; from
\* then on the stopped session issues no generator request, opens no
\* synthesizer websocket, sends no text to the synthesizer and appends no turn
\* to the history.
C20_Step ==
  /\ (socket /\ ~socket') => (requests' = {} /\ ttsWs' = "none")
  /\ ~socket =>
       /\ requests' \subseteq requests
       /\ ttsWs' = "none"
       /\ \A i \in 1..Len(out') : ~IsTtsText(out'[i])
       /\ currentConversation' = currentConversation
C20_StopInterruptsAndSilences == [][C20_Step]_vars

\* ------------------------------------------------------------------------
\* C19
\* ------------------------------------------------------------------------
\* Turns with tool_result blocks among the turns this step appends to the history
ToolRoundsCommitted ==
  Cardinality({i \in (Len(currentConversation) + 1)..Len(currentConversation') :
                 HasBlock(currentConversation'[i].content, "tool_result")})
\* Tool rounds a running check has finished: the tool-result turns it holds
ToolRoundsOf(f) ==
  Cardinality({i \in 1..Len(f.toCommit) : HasBlock(f.toCommit[i].content, "tool_result")})

\* C19 as stated: a recurring check executes tool calls in at most
\* MAX_TOOL_ROUNDS rounds, so no check commits more than MAX_TOOL_ROUNDS
\* tool-result turns.
C19_Original_Step == ToolRoundsCommitted <= MAX_TOOL_ROUNDS
C19_AtMostMaxToolRounds == [][C19_Original_Step]_vars

\* C19 amended: a recurring check issues at most MAX_TOOL_ROUNDS follow-up
\* requests and executes tool calls in at most MAX_TOOL_ROUNDS + 1 rounds
\* (round indices 0..MAX_TOOL_ROUNDS); the check that has received the response
\* to its last follow-up issues no further request, whatever that response
\* holds; and every running check ends.
C19_Step ==
  /\ ToolRoundsCommitted <= MAX_TOOL_ROUNDS + 1
  /\ \A g \in frames' :
       g.kind = "rc" =>
         /\ g.req - g.cyc <= MAX_TOOL_ROUNDS
         /\ g.round <= MAX_TOOL_ROUNDS
         /\ ToolRoundsOf(g) <= MAX_TOOL_ROUNDS
         /\ (g.pc = "rcFollow" => ToolRoundsOf(g) = g.req - g.cyc)
  /\ \A f \in frames :
       (f.kind = "rc" /\ f.req - f.cyc = MAX_TOOL_ROUNDS) => requests' \subseteq requests
C19_CheckStopsAfterLastRound ==
  /\ [][C19_Step]_vars
  /\ (isRecurringCheckRunning ~> ~isRecurringCheckRunning)

\* A check has been committed with MAX_TOOL_ROUNDS + 1 tool-result turns, the
\* last of them at the end of the history
C19_Witness ==
  /\ ~isRecurringCheckRunning /\ frames = {} /\ requests = {}
  /\ Cardinality({i \in 1..Len(currentConversation) :
                    HasBlock(currentConversation[i].content, "tool_result")})
       = MAX_TOOL_ROUNDS + 1
  /\ HasBlock(currentConversation[Len(currentConversation)].content, "tool_result")

\* ------------------------------------------------------------------------
\* C25
\* ------------------------------------------------------------------------
\* C25: the step pointer stays inside the loaded tutorial: with a tutorial
\* loaded 0 <= currentStepIndex < totalSteps, and with no tutorial loaded a
\* Progressed_Step call leaves the pointer where the constructor put it.
C25_StepPointerInsideTutorial ==
  IF currentTutorial = 0 THEN currentStepIndex = 0
  ELSE 0 <= currentStepIndex /\ currentStepIndex < currentTutorial

\* ------------------------------------------------------------------------
\* C26
\* ------------------------------------------------------------------------
\* C26: a text delta that a streaming cycle accepts is passed on to the client
\* at once: the handler run in which the cycle's text grows, the request still
\* streaming, emits a text event (agent_text, agent_text_continue or
\* agent_text_delta) to the client.
C26_Step ==
  \A f \in frames, g \in frames' :
    (/\ f.pc = "stream" /\ g.pc = "stream" /\ g.cyc = f.cyc
     /\ Len(g.fullText) > Len(f.fullText))
    => \E i \in 1..Len(out') :
         /\ out'[i].to = "client"
         /\ out'[i].type \in {"agent_text", "agent_text_continue", "agent_text_delta"}
C26_DeltaReachesClientAtOnce == [][C26_Step]_vars

\* ------------------------------------------------------------------------
\* C28
\* ------------------------------------------------------------------------
\* C28: the synthesizer websocket is pre-connected: when the first text of
\* the greeting is handed to the synthesizer client, the connection has been
\* initiated already (the websocket is connecting or open).
C28_Step ==
  \A f \in frames :
    (f.root = "session" /\ f.cyc = 1 /\ chunkSeq = 0 /\ chunkSeq' > 0) => ttsWs # "none"
C28_SynthesizerPreconnected == [][C28_Step]_vars

\* ------------------------------------------------------------------------
\* C27
\* ------------------------------------------------------------------------
\* Index of the first comma or sentence terminator of buf that is followed by
\* whitespace, 0 when there is none
ClauseEnd(buf) ==
  LET hits == {i \in 1..(Len(buf) - 1) :
                 (buf[i] = "," \/ IsTerminator(buf[i])) /\ IsWhitespace(buf[i + 1])}
  IN IF hits = {} THEN 0 ELSE CHOOSE i \in hits : \A j \in hits : i <= j

\* C27: text is dispatched at clause boundaries: once a handler has run, the
\* sentence buffer of a cycle that is not interrupted holds no comma and no
\* sentence terminator that is followed by whitespace; the text up to it has
\* been handed to the synthesizer client.
C27_DispatchedAtClauseBoundaries ==
  ~interrupted => ClauseEnd(sentenceBuffer) = 0

\* ------------------------------------------------------------------------
\* C29
\* ------------------------------------------------------------------------
\* C29: a main cycle that handleInterruption has cut while it awaited its
\* stream or the synthesizer discards its response: the handler run that
\* resumes it appends no assistant turn, emits no agent_text or
\* agent_text_continue event for the cycle and gives none of its tool_use
\* blocks to handleToolCall.
C29_Step ==
  \A f \in frames :
    (f.kind = "main" /\ f.cut # "" /\ f.pc \in {"stream", "flushWait"} /\ f \notin frames')
    => /\ \A i \in (Len(currentConversation) + 1)..Len(currentConversation') :
            currentConversation'[i].role # "assistant"
       /\ \A i \in 1..Len(out') :
            ~(/\ out'[i].type \in {"agent_text", "agent_text_continue"}
              /\ out'[i].cyc = f.cyc)
       /\ \A i \in 1..Len(toolLog') : toolLog'[i][1] # f.req \/ toolLog' = toolLog
C29_InterruptedCycleDiscardsResponse == [][C29_Step]_vars

\* ------------------------------------------------------------------------
\* C30
\* ------------------------------------------------------------------------
\* C30: every started cycle finishes and releases isProcessing (and
\* isRecurringCheckRunning): no cycle, main or recurring, is suspended at a
\* promise that never settles.
C30_NoCycleAwaitsForever ==
  \A f \in frames : f.pc # "hung"

\* ------------------------------------------------------------------------
\* C22
\* ------------------------------------------------------------------------
\* The turns hold the {success: false, error} result of tool_use block id
HoldsFailure(turns, id) ==
  \E i \in 1..Len(turns) :
    \E j \in 1..Len(BlocksOf(turns[i].content)) :
      BlocksOf(turns[i].content)[j] = ToolResultBlock(id, "failure")
EmittedNow(type) == \E i \in 1..Len(out') : out'[i].to = "client" /\ out'[i].type = type

\* C22: the handler run that resumes a cycle from a Create_Tutorial call emits
\* either tutorial_ready or tutorial_error, never both. When it emits
\* tutorial_error, currentTutorial keeps its value, and so does
\* currentStepIndex unless a Progressed_Step block follows in the batch; the
\* exception is not propagated: a main cycle that is not interrupted appends
\* the tool-result turn with the {success: false, error} result of the block
\* and issues its follow-up request, and a recurring check that is not
\* cancelled keeps that result among its provisional turns or commits it.
C22_Step ==
  \A f \in frames :
    (/\ f.pc \in {"tool", "rcTool"}
     /\ \A g \in frames' : ~(g.cyc = f.cyc /\ g.pc = f.pc /\ g.ti = f.ti))
    => LET uses == ToolUses(f.resp)
           b == uses[f.ti]
           later == {uses[j].name : j \in (f.ti + 1)..Len(uses)}
       IN /\ EmittedNow("tutorial_ready") # EmittedNow("tutorial_error")
          /\ EmittedNow("tutorial_error") =>
               /\ currentTutorial' = currentTutorial
               /\ "Progressed_Step" \notin later => currentStepIndex' = currentStepIndex
               /\ (f.kind = "main" /\ ~interrupted /\ "Create_Tutorial" \notin later) =>
                    /\ FollowUpIssued
                    /\ HoldsFailure(<<currentConversation'[Len(currentConversation')]>>, b.id)
               /\ (f.kind = "rc" /\ ~recurringCheckCancelled) =>
                    \/ \E g \in frames' :
                         /\ g.kind = "rc" /\ g.cyc = f.cyc
                         /\ HoldsFailure(g.toCommit, b.id) \/ g.results = <<ToolResultBlock(b.id, "failure")>>
                    \/ HoldsFailure(currentConversation', b.id)
C23_Step ==
  toolType' \notin ConfiguredTools \cup {""} =>
    /\ currentConversation' = <<>>
    /\ requests' = {} /\ nextCyc' = 0
    /\ frames' = {}
    /\ ~recurringCheckInterval'
    /\ ~sessionStarted'
    /\ \A i \in 1..Len(out') : out'[i].type # "session_started"
    /\ toolType' # toolType =>
         \E i \in 1..Len(out') : out'[i].to = "log" /\ out'[i].type = "unhandled_rejection"
C23_MissingConfigurationAbortsStart == [][C23_Step]_vars

\* A start_session with an unconfigured tool type has just been handled
C23_Witness ==
  /\ toolType \notin ConfiguredTools \cup {""}
  /\ \E i \in 1..Len(out) : out[i].to = "log" /\ out[i].type = "unhandled_rejection"
  /\ currentConversation = <<>>

\* ------------------------------------------------------------------------
\* C21
\* ------------------------------------------------------------------------
\* C21: a destroyed instance reacts to no later event of the socket: it
\* stores no frame, it runs no startSession (it is not started and its
\* transcript source gets no new websocket), and no cycle starts in it.
C21_Step ==
  ~socket =>
    /\ latestFrame' = latestFrame
    /\ sessionStarted' = sessionStarted
    /\ sttSockets' = sttSockets
    /\ frames = {} => frames' = {}
C21_DestroyedInstanceIsDeaf == [][C21_Step]_vars

\* ------------------------------------------------------------------------
\* C24
\* ------------------------------------------------------------------------
\* C24: when the websocket of the transcript source closes and disconnect()
\* has not been called, a reconnect is scheduled; once disconnect() has been
\* called (and connect() not again), no reconnect timer is left pending and no
\* timer opens a websocket.
C24_Step ==
  /\ (sttWs # "none" /\ sttWs' = "none" /\ sttShouldReconnect /\ sttShouldReconnect')
       => sttTimerRef'
  /\ ~sttShouldReconnect' => (~sttTimerRef' /\ sttLostTimers' = 0)
  /\ ~sttShouldReconnect =>
       ~(sttLostTimers' < sttLostTimers /\ sttSockets' > sttSockets)
C24_ReconnectUnlessDisconnected == [][C24_Step]_vars
\* ------------------------------------------------------------------------
\* C31
\* ------------------------------------------------------------------------
\* C31: a main cycle that is interrupted while it awaits a tool call keeps the
\* assistant turn with the tool_use blocks in the history as long as it waits;
\* the handler run that resumes it gives no further tool_use block to
\* handleToolCall, appends no turn (so no tool-result turn, complete or
\* partial) and issues no follow-up request, and it leaves the history as it
\* is unless a queued transcript starts a fresh cycle, whose sanitization is
\* then the only change.
C31_Step ==
  \A f \in frames :
    (f.kind = "main" /\ f.pc = "tool" /\ interrupted) =>
      /\ \E i \in 1..Len(currentConversation) :
           /\ currentConversation[i] = Turn("assistant", Arr(f.resp))
           /\ ~Answered(currentConversation, i)
      /\ f \notin frames' =>
           /\ toolLog' = toolLog
           /\ Len(currentConversation') = Len(currentConversation)
           /\ \A g \in frames' : ~g.cont
           /\ \A r \in requests' : r.kind = "stream" => r.cyc = nextCyc + 1 /\ hasPendingUserMessage
           /\ IF nextCyc' = nextCyc
              THEN currentConversation' = currentConversation
              ELSE currentConversation'
                     = pruneOldImages(sanitizeConversation(currentConversation))
C31_InterruptedToolLoopIsAbandoned == [][C31_Step]_vars

\* A cycle interrupted during the first of two tool calls has ended: the
\* second block was not executed and the assistant turn is left unanswered at
\* the end of the history
C31_Witness ==
  /\ interrupted /\ frames = {} /\ requests = {}
  /\ Len(toolLog) = 1
  /\ \E i \in 1..Len(out) : out[i].type \in {"tutorial_ready", "tutorial_error"}
  /\ Len(currentConversation) >= 1
  /\ HoldsToolUse(currentConversation, Len(currentConversation))
  /\ Len(IdsOf(currentConversation[Len(currentConversation)].content, "tool_use")) = 2
\* ------------------------------------------------------------------------
\* C32
\* ------------------------------------------------------------------------
\* The end-of-utterance signal of each cycle among the events of this run: a
\* flush followed at once by the end-of-stream message, sent once, with every
\* chunk the cycle has handed to the synthesizer client sent before it
EosOnceAndLast(o, calls) ==
  \A i \in 1..Len(o) :
    (o[i].to = "tts" /\ o[i].type = "eos") =>
      /\ i > 1 /\ o[i - 1].type = "flush" /\ o[i - 1].cyc = o[i].cyc
      /\ \A j \in 1..Len(o) : (o[j].type = "eos" /\ o[j].cyc = o[i].cyc) => j = i
      /\ \A j \in 1..Len(o) : (IsTtsText(o[j]) /\ o[j].cyc = o[i].cyc) => j < i
      /\ \A j \in 1..Len(calls) : calls[j].cyc # o[i].cyc
\* The main cycle of f gets past its final flush in this step
PassesFinalFlush(f) ==
  /\ f.kind = "main" /\ f.pc \in {"stream", "flushWait"}
  /\ Len(currentConversation') > Len(currentConversation)
  /\ currentConversation'[Len(currentConversation) + 1].role = "assistant"
  /\ currentConversation'[Len(currentConversation) + 1].content.kind = "arr"
EosSent(f) == \E i \in 1..Len(out') : out'[i].type = "eos" /\ out'[i].cyc = f.cyc

\* C32: a main cycle that no interrupt has cut and that gets past its final
\* flush with text sends the end-of-utterance signal (flush, then end of
\* stream) exactly once, after every sentence chunk and the remainder of the
\* cycle have been sent; a cycle that an interrupt has cut sends none.
C32_Step ==
  /\ EosOnceAndLast(out', ttsCalls')
  /\ \A f \in frames :
       (PassesFinalFlush(f) /\ f.cut = "" /\ f.fullText # <<>>) => EosSent(f)
  /\ \A f \in frames : (f.kind = "main" /\ f.cut # "") => ~EosSent(f)
C32_EndOfUtteranceOnceAndLast == [][C32_Step]_vars
\* ------------------------------------------------------------------------
\* C33
\* ------------------------------------------------------------------------
\* The tool loop of the main cycle of f ends in this step: the response with
\* tool_use blocks has come, or the awaited tool call has returned, and the
\* cycle awaits no further tool call
ToolLoopEnds(f) ==
  /\ f.kind = "main"
  /\ \A g \in frames' : ~(g.kind = "main" /\ g.pc = "tool")
  /\ \/ f.pc = "tool"
     \/ /\ f.pc = "stream"
        /\ Len(currentConversation') > Len(currentConversation)
        /\ HoldsToolUse(currentConversation', Len(currentConversation) + 1)

\* C33: a main cycle has no maximum number of tool rounds: however many rounds
\* it has made, a cycle that is not interrupted and whose tool loop ends issues
\* a further generator request; a recurring check issues at most
\* MAX_TOOL_ROUNDS follow-up requests.
C33_Step ==
  /\ \A f \in frames : (ToolLoopEnds(f) /\ ~interrupted) => FollowUpIssued
  /\ \A g \in frames' : g.kind = "rc" => g.req - g.cyc <= MAX_TOOL_ROUNDS
C33_MainCycleHasNoRoundLimit == [][C33_Step]_vars

\* The greeting cycle has issued more follow-up requests than a recurring
\* check may issue
C33_Witness ==
  \E g \in frames :
    /\ g.kind = "main" /\ g.root = "session" /\ g.cont /\ g.pc = "stream"
    /\ TrailingToolRounds(currentConversation) > MAX_TOOL_ROUNDS
    /\ \E r \in requests : r.cyc = g.cyc /\ r.messages = currentConversation
\* ------------------------------------------------------------------------
\* C34
\* ------------------------------------------------------------------------
\* The agent is speaking, a cycle is processing or a recurring check runs
Busy(s) == s.isAgentCurrentlySpeaking \/ s.isProcessing \/ s.isRecurringCheckRunning
\* What handleInterruption leaves behind
Interrupting(s, r) ==
  /\ r.interrupted /\ r.recurringCheckCancelled /\ ~r.isAgentCurrentlySpeaking
  /\ r.currentStream = 0 /\ r.ttsWs = "none"
  /\ \A q \in r.requests : q.kind # "stream"
  /\ \E i \in 1..Len(r.out) : r.out[i].to = "client" /\ r.out[i].type = "interrupt"
  /\ r.currentConversation = s.currentConversation
  /\ r.isProcessing = s.isProcessing
  /\ r.isRecurringCheckRunning = s.isRecurringCheckRunning

\* C34: in every state, a blank partial and a blank committed transcript
\* change nothing and emit nothing; a non-blank partial transcript runs
\* handleInterruption when the agent is speaking, a cycle is processing or a
\* recurring check is running, and otherwise changes nothing and emits
\* nothing; a step that handles an interrupting partial transcript starts in
\* such a state and emits interrupt.
C34_Step ==
  /\ onPartialTranscript(Pack, TRUE) = Pack
  /\ onCommittedTranscript(Pack, TRUE) = Pack
  /\ IF Busy(Pack) THEN Interrupting(Pack, onPartialTranscript(Pack, FALSE))
     ELSE onPartialTranscript(Pack, FALSE) = Pack
  /\ nPartials' # nPartials =>
       /\ Busy(Pack)
       /\ interrupted' /\ Interrupts'
       /\ currentConversation' = currentConversation
C34_PartialInterruptsOnlyWhenBusy == [][C34_Step]_vars

\* A partial transcript has just cancelled a running recurring check
C34_Witness ==
  /\ nPartials = 1 /\ Interrupts
  /\ isRecurringCheckRunning /\ recurringCheckCancelled /\ interrupted
  /\ \E f \in frames : f.kind = "rc" /\ f.cut # ""
\* ------------------------------------------------------------------------
\* C35
\* ------------------------------------------------------------------------
\* C35: the handler run of a non-blank committed transcript appends, to a
\* history that ends with a user turn, the placeholder assistant turn and then
\* the new user turn, and to any other history the new user turn alone; from
\* the turn that was last onwards no two adjacent turns have the same role.
C35_Step ==
  nCommitted' # nCommitted =>
    LET conv == currentConversation
        after == currentConversation'
        n == Len(conv)
        userTurn == Turn("user", buildUserContent(latestFrame, <<"user", nCommitted'>>))
    IN /\ IF n > 0 /\ conv[n].role = "user"
          THEN /\ Len(after) = n + 2
               /\ after[n + 1] = Turn("assistant", Str(INTERRUPTED_PLACEHOLDER))
               /\ after[n + 2] = userTurn
          ELSE /\ Len(after) = n + 1
               /\ after[n + 1] = userTurn
       /\ \A i \in 1..(Len(after) - 1) : i >= n => after[i].role # after[i + 1].role
C35_CommitKeepsAlternation == [][C35_Step]_vars

\* A transcript was committed while the follow-up request of a tool batch was
\* outstanding: tool-result turn, placeholder, user turn
C35_Witness ==
  \E i \in 1..(Len(currentConversation) - 2) :
    /\ HasBlock(currentConversation[i].content, "tool_result")
    /\ currentConversation[i + 1] = Turn("assistant", Str(INTERRUPTED_PLACEHOLDER))
    /\ currentConversation[i + 2].role = "user"
    /\ nCommitted >= 1
\* ------------------------------------------------------------------------
\* C36
\* ------------------------------------------------------------------------
\* Buffer sources of the client that sound
Playing == {src \in client.sources : src.st = "playing"}
\* No event is in flight to the client, no notification in flight to the server
ChannelsEmpty == client.inbox = <<>> /\ client.outbox = 0

\* C36: the speaking flag is not cleared by a stale notification: whenever
\* the client has agent audio playing or queued, and every event sent to it and
\* every audio_playback_ended it has sent has been delivered,
\* isAgentCurrentlySpeaking is true.
C36_SpeakingWhileClientPlays ==
  (ChannelsEmpty /\ (Playing # {} \/ client.audioQueue # <<>>)) => isAgentCurrentlySpeaking

\* ------------------------------------------------------------------------
\* C37
\* ------------------------------------------------------------------------
\* The client handles an interrupt event in this step
InterruptHandled ==
  /\ Len(client'.inbox) < Len(client.inbox)
  /\ Head(client.inbox).type = "interrupt"

\* C37: on the client at most one buffer source plays at any time, sources
\* are started in the order in which their chunks arrived, and when the
\* interrupt handler has run the queue is empty and no source plays.
C37_Step ==
  /\ Cardinality({src \in client'.sources : src.st = "playing"}) <= 1
  /\ client'.lastStarted >= client.lastStarted
  /\ InterruptHandled =>
       /\ client'.audioQueue = <<>>
       /\ \A src \in client'.sources : src.st # "playing"
C37_OneSourceInArrivalOrder == [][C37_Step]_vars
\* ------------------------------------------------------------------------
\* C38
\* ------------------------------------------------------------------------
\* Indices of the user turns of conv that carry the k-th committed transcript
UserTurnsOf(conv, k) ==
  {i \in 1..Len(conv) :
     /\ conv[i].role = "user"
     /\ \/ conv[i].content = Str(<<"user", k>>)
        \/ \E j \in 1..Len(BlocksOf(conv[i].content)) :
             BlocksOf(conv[i].content)[j] = TextBlock(<<"user", k>>)}

\* C38: committed transcripts are processed in arrival order: the handler run
\* of the k-th non-blank committed transcript appends its user turn as the
\* last turn of the history and emits exactly one user_text event, which
\* carries that transcript, whether or not a cycle is active; the history
\* holds one user turn for each transcript committed so far, in the order of
\* their arrival.
C38_Step ==
  /\ \A k \in 1..nCommitted' : Cardinality(UserTurnsOf(currentConversation', k)) = 1
  /\ \A k, l \in 1..nCommitted' :
       k < l => \A i \in UserTurnsOf(currentConversation', k),
                   j \in UserTurnsOf(currentConversation', l) : i < j
  /\ nCommitted' # nCommitted =>
       /\ nCommitted' = nCommitted + 1
       /\ UserTurnsOf(currentConversation', nCommitted') = {Len(currentConversation')}
       /\ Cardinality({i \in (Len(currentConversation) + 1)..Len(currentConversation') :
                         currentConversation'[i].role = "user"}) = 1
       /\ Cardinality({i \in 1..Len(out') : out'[i].type = "user_text"}) = 1
       /\ \E i \in 1..Len(out') :
            out'[i].to = "client" /\ out'[i].type = "user_text"
            /\ out'[i].tag = <<"user", nCommitted'>>
  /\ nCommitted' = nCommitted => \A i \in 1..Len(out') : out'[i].type # "user_text"
C38_TranscriptsInArrivalOrder == [][C38_Step]_vars

\* The second transcript was committed while the cycle of the first was
\* active: both turns are in the history, in this order
C38_Witness ==
  /\ nCommitted = 2 /\ hasPendingUserMessage
  /\ \E i \in UserTurnsOf(currentConversation, 1), j \in UserTurnsOf(currentConversation, 2) :
       i < j /\ j = Len(currentConversation)
  /\ \E f \in frames : f.kind = "main" /\ f.cut # ""
\* ------------------------------------------------------------------------
\* C39
\* ------------------------------------------------------------------------
\* What a turn built now carries: the frame received last, or the text alone
WithLatestFrame(text) ==
  IF frameCount = 0 THEN Str(text)
  ELSE Arr(<<ImageBlock(frameCount), TextBlock(text)>>)

\* C39: the latest frame is one overwritten slot: the slot always holds the
\* frame received last (none before the first); the handler run of a frame
\* changes nothing but the slot and the frame counter and emits nothing; the
\* user turn of a committed transcript and the prompt of a recurring check
\* carry the frame received last, or no image when none has been received.
C39_Step ==
  /\ latestFrame' = frameCount'
  /\ frameCount' # frameCount =>
       /\ frameCount' = frameCount + 1
       /\ out' = <<>>
       /\ UNCHANGED <<currentConversation, isProcessing, interrupted, hasPendingUserMessage,
                      isRecurringCheckRunning, recurringCheckCancelled,
                      isAgentCurrentlySpeaking, sentenceBuffer, currentTutorial,
                      currentStepIndex, idleElapsed, sessionStarted, recurringCheckInterval,
                      frames, nextCyc, currentStream, requests, ttsWs, ttsConnected,
                      ttsConnecting, ttsCalls, wsTexts, nCommitted, nPartials, nChecks,
                      nUserCycles, nToolResponses, toolLog, socket, toolType, sttWs,
                      sttConnected, sttShouldReconnect, sttTimerRef, sttLostTimers,
                      sttStale, sttSockets, client>>
  /\ nCommitted' # nCommitted =>
       currentConversation'[Len(currentConversation')]
         = Turn("user", WithLatestFrame(<<"user", nCommitted'>>))
  /\ nChecks' # nChecks =>
       \E r \in requests' :
         /\ r.cyc = nextCyc' /\ frameCount > 0
         /\ r.messages[Len(r.messages)]
              = Turn("user", WithLatestFrame(<<"[RECURRING_SCREEN_CHECK]", nextCyc'>>))
C39_FrameSlotHoldsLatest == [][C39_Step]_vars

\* Two frames have been received and a recurring check runs whose prompt
\* carries the second
C39_Witness ==
  /\ frameCount = 2
  /\ \E f \in frames, r \in requests :
       /\ f.kind = "rc" /\ r.cyc = f.req
       /\ r.messages[Len(r.messages)].content.blocks[1] = ImageBlock(2)
\* ------------------------------------------------------------------------
\* C40
\* ------------------------------------------------------------------------
\* r is s but for the transcript source and the events emitted
SameButSttAndOut(s, r) ==
  r = [s EXCEPT !.sttWs = r.sttWs, !.sttShouldReconnect = r.sttShouldReconnect,
                !.sttSockets = r.sttSockets, !.out = r.out]
RootSession(fs) == {f \in fs : f.root = "session"}

\* C40: in every state with a non-empty history, start_session with any tool
\* type leaves the history, the requests, the cycles, the configuration and
\* the timer as they are: it only gives the transcript source a websocket when
\* it is not connected and has none, and a live instance emits session_started
\* and nothing else. The timer is started only by the end of the one
\* startSession run that pushed [SESSION_START]; no second such run begins.
C40_Step ==
  /\ currentConversation # <<>> =>
       \A tt \in ConfiguredTools \cup {"other"} :
         LET r == startSessionEvent(Pack, tt)
         IN /\ SameButSttAndOut(Pack, r)
            /\ IF sttConnected \/ sttWs # "none"
               THEN r.sttWs = sttWs /\ r.sttSockets = sttSockets
               ELSE r.sttWs = "connecting" /\ r.sttSockets = sttSockets + 1
                    /\ r.sttShouldReconnect
            /\ socket => r.out = <<Event("client", "session_started", 0, NoText, <<>>)>>
            /\ ~socket => \A i \in 1..Len(r.out) : r.out[i].to # "client"
  /\ Cardinality(RootSession(frames')) <= 1
  /\ (recurringCheckInterval' /\ ~recurringCheckInterval) =>
       (RootSession(frames) # {} /\ RootSession(frames') = {})
  /\ (currentConversation # <<>> /\ RootSession(frames) = {}) => RootSession(frames') = {}
C40_RestartIsIdempotent == [][C40_Step]_vars

\* A repeated start_session was handled while the greeting cycle of the first
\* was still active, after the transcript source had lost its websocket: the
\* source has a second websocket, session_started was emitted, and the history
\* holds the one [SESSION_START] turn
C40_Witness ==
  /\ \E i \in 1..Len(out) : out[i].type = "session_started"
  /\ \E f \in frames : f.root = "session" /\ f.cyc = 1
  /\ sttSockets = 2 /\ sttWs = "connecting"
  /\ currentConversation = <<Turn("user", Str(SESSION_START))>>
  /\ nextCyc = 1 /\ ~recurringCheckInterval
====
